---------------------------- MODULE Spec2Model ----------------------------
(***************************************************************************)
(* Flight-dynamics core of the flight simulator: the integrator            *)
(* updateAircraftPhysics and its force model (src/physics/aerodynamics.ts),*)
(* the aerodynamic state classifier AdvancedAerodynamics, the error        *)
(* handler and the aircraft store.                                         *)
(*                                                                         *)
(* Numbers.  The program computes in IEEE doubles; the model computes in   *)
(* fixed point on integers, every quantity in a stated unit:               *)
(*   lengths cm, speeds cm/s, accelerations cm/s^2, time ms, forces N,     *)
(*   mass kg, angles mrad, airspeed 1/1000 km/h, and dimensionless         *)
(*   factors (throttle, stick deflection, coefficients) in 1/1000.         *)
(* Divisions round toward minus infinity (floor).                          *)
(***************************************************************************)
EXTENDS Integers, Sequences, FiniteSets, TLC

Milli == 10^3

Abs(x) == IF x < 0 THEN -x ELSE x
Max(a, b) == IF a >= b THEN a ELSE b
Min(a, b) == IF a <= b THEN a ELSE b
Sign(x) == IF x > 0 THEN 1 ELSE IF x < 0 THEN -1 ELSE 0

\* floor(a*b/c) for c > 0 without forming a*b: the larger factor is split
\* by c (needs (c-1) * min(|a|,|b|) < 2^31).
MulDiv(a, b, c) ==
  IF Abs(a) >= Abs(b) THEN (a \div c) * b + ((a % c) * b) \div c
  ELSE (b \div c) * a + ((b % c) * a) \div c

\* floor(sqrt(n)), n >= 0, by bisection on [lo, hi).
RECURSIVE SqrtBetween(_, _, _)
SqrtBetween(n, lo, hi) ==
  IF hi - lo <= 1 THEN lo
  ELSE LET mid == (lo + hi) \div 2
       IN IF mid * mid <= n THEN SqrtBetween(n, mid, hi)
          ELSE SqrtBetween(n, lo, mid)

ISqrt(n) == SqrtBetween(n, 0, 46341)

(***************************************************************************)
(* Math.sin / Math.cos / Math.acos / Math.asin / Math.atan2 on mrad.       *)
(***************************************************************************)
PI == 3142
HalfPI == 1571

\* sin on [0, pi/2] mrad, result in 1/1000: x - x^3/3! + x^5/5! - x^7/7!
SinQ(x) ==
  LET x2 == (x * x) \div Milli
      t3 == (x * x2) \div (6 * Milli)
      t5 == (t3 * x2) \div (20 * Milli)
      t7 == (t5 * x2) \div (42 * Milli)
  IN Min(Milli, x - t3 + t5 - t7)

Sin(a) ==
  LET r == a % (2 * PI)
  IN IF r <= HalfPI THEN SinQ(r)
     ELSE IF r <= PI THEN SinQ(PI - r)
     ELSE IF r <= PI + HalfPI THEN -SinQ(r - PI)
     ELSE -SinQ(Min(HalfPI, 2 * PI - r))

Cos(a) == Sin(a + HalfPI)

\* Math.acos: the angle in [0, pi] whose cosine is c (1/1000), by bisection.
RECURSIVE AcosBetween(_, _, _)
AcosBetween(c, lo, hi) ==
  IF hi - lo <= 1 THEN lo
  ELSE LET mid == (lo + hi) \div 2
       IN IF Cos(mid) >= c THEN AcosBetween(c, mid, hi)
          ELSE AcosBetween(c, lo, mid)

Acos(c) == IF c >= Milli THEN 0 ELSE IF c <= -Milli THEN PI ELSE AcosBetween(c, 0, PI)
Asin(s) == HalfPI - Acos(s)

\* atan of y/x for x > 0, y >= 0: the angle a in [0, pi/2) with tan a = y/x.
RECURSIVE AtanBetween(_, _, _, _)
AtanBetween(y, x, lo, hi) ==
  IF hi - lo <= 1 THEN lo
  ELSE LET mid == (lo + hi) \div 2
       IN IF Sin(mid) * x <= Cos(mid) * y THEN AtanBetween(y, x, mid, hi)
          ELSE AtanBetween(y, x, lo, mid)

\* Math.atan2(y, x), arguments of magnitude below 2*10^6.
Atan2(y, x) ==
  LET k == Max(Abs(x), Abs(y)) \div 20000 + 1
      ys == Abs(y) \div k
      xs == Abs(x) \div k
      q == IF xs = 0 THEN (IF ys = 0 THEN 0 ELSE HalfPI)
           ELSE AtanBetween(ys, xs, 0, HalfPI)
      h == IF x >= 0 THEN q ELSE PI - q
  IN IF y >= 0 THEN h ELSE -h

(***************************************************************************)
(* three.js Vector3 / Euler, as values.  A method that works in place      *)
(* (sub, add, multiplyScalar, divideScalar, normalize) is modelled by the  *)
(* value its receiver holds afterwards; which object is the receiver is    *)
(* tracked where the method is called.                                     *)
(***************************************************************************)
Vec(x, y, z) == [x |-> x, y |-> y, z |-> z]
VZero == Vec(0, 0, 0)
VAdd(a, b) == Vec(a.x + b.x, a.y + b.y, a.z + b.z)
VSub(a, b) == Vec(a.x - b.x, a.y - b.y, a.z - b.z)
VDot(a, b) == a.x * b.x + a.y * b.y + a.z * b.z
\* v * n / d, componentwise
VScale(v, n, d) == Vec(MulDiv(v.x, n, d), MulDiv(v.y, n, d), MulDiv(v.z, n, d))

\* Vector3.length(): components are scaled down before squaring to stay in range.
VLength(v) ==
  LET k == Max(Abs(v.x), Max(Abs(v.y), Abs(v.z))) \div 20000 + 1
      w == Vec(Abs(v.x) \div k, Abs(v.y) \div k, Abs(v.z) \div k)
  IN ISqrt(VDot(w, w)) * k

\* Vector3.normalize(): divideScalar(length() || 1); `one` is the length of a
\* unit vector in the unit of the result (100 for cm/s, 1000 for 1/1000).
VNormalize(v, one) ==
  LET len == VLength(v)
  IN IF len = 0 THEN v
     ELSE Vec(Sign(v.x) * ((Abs(v.x) * one) \div len),
              Sign(v.y) * ((Abs(v.y) * one) \div len),
              Sign(v.z) * ((Abs(v.z) * one) \div len))

\* new Vector3(0,0,-1) / (0,1,0) / (1,0,0) .applyEuler(rotation), order XYZ;
\* results in 1/1000.
EulerForward(r) ==
  Vec(-Sin(r.y), (Sin(r.x) * Cos(r.y)) \div Milli, -((Cos(r.x) * Cos(r.y)) \div Milli))
EulerUp(r) ==
  Vec(-((Cos(r.y) * Sin(r.z)) \div Milli),
      (Cos(r.x) * Cos(r.z)) \div Milli
        - (((Sin(r.x) * Sin(r.z)) \div Milli) * Sin(r.y)) \div Milli,
      (Sin(r.x) * Cos(r.z)) \div Milli
        + (((Cos(r.x) * Sin(r.z)) \div Milli) * Sin(r.y)) \div Milli)
EulerRight(r) ==
  Vec((Cos(r.y) * Cos(r.z)) \div Milli,
      (Cos(r.x) * Sin(r.z)) \div Milli
        + (((Sin(r.x) * Cos(r.z)) \div Milli) * Sin(r.y)) \div Milli,
      (Sin(r.x) * Sin(r.z)) \div Milli
        - (((Cos(r.x) * Cos(r.z)) \div Milli) * Sin(r.y)) \div Milli)

\* Linear interpolation in a table of <<x, y>> knots with increasing x.
RECURSIVE InterpFrom(_, _, _)
InterpFrom(t, i, x) ==
  IF i >= Len(t) THEN t[Len(t)][2]
  ELSE IF x <= t[i + 1][1]
       THEN t[i][2] + MulDiv(t[i + 1][2] - t[i][2], x - t[i][1], t[i + 1][1] - t[i][1])
       ELSE InterpFrom(t, i + 1, x)
Interp(t, x) == IF x <= t[1][1] THEN t[1][2] ELSE InterpFrom(t, 1, x)

(***************************************************************************)
(* constants: AIRCRAFT_SPECS, PHYSICS_CONSTANTS                            *)
(***************************************************************************)
AircraftTypes == {"cessna172", "boeing737", "f16"}

\* stallSpeed, cruiseSpeed km/h; weight kg; fuelConsumption l/h;
\* wingArea in 0.1 m^2; dragCoefficient in 1/10000; liftCoefficient in 1/1000.
AIRCRAFT_SPECS ==
  [cessna172 |-> [stallSpeed |-> 87, cruiseSpeed |-> 226, weight |-> 650,
                  fuelCapacity |-> 212, fuelConsumption |-> 32, enginePower |-> 180,
                  wingArea |-> 162, dragCoefficient |-> 200, liftCoefficient |-> 2000],
   boeing737 |-> [stallSpeed |-> 250, cruiseSpeed |-> 850, weight |-> 25000,
                  fuelCapacity |-> 26000, fuelConsumption |-> 2600, enginePower |-> 50000,
                  wingArea |-> 1250, dragCoefficient |-> 100, liftCoefficient |-> 3000],
   f16       |-> [stallSpeed |-> 204, cruiseSpeed |-> 1320, weight |-> 6000,
                  fuelCapacity |-> 3200, fuelConsumption |-> 1500, enginePower |-> 130000,
                  wingArea |-> 279, dragCoefficient |-> 100, liftCoefficient |-> 1800]]

\* GRAVITY in cm/s^2, AIR_DENSITY_SEA_LEVEL in g/m^3
GRAVITY == 981
AIR_DENSITY_SEA_LEVEL == 1225

(***************************************************************************)
(* ErrorHandler (utils/errorHandler.ts)                                    *)
(***************************************************************************)
maxErrors == 100

\* a log that drops the newest error beyond maxErrors
logErrorKeepOldest(errs, code, severity) ==
  IF Len(errs) >= maxErrors THEN errs
  ELSE Append(errs, [code |-> code, severity |-> severity])

\* ErrorHandler.logError: push, then drop the oldest beyond maxErrors.
logError(errs, code, severity) ==
  LET pushed == Append(errs, [code |-> code, severity |-> severity])
  IN IF Len(pushed) > maxErrors THEN Tail(pushed) ELSE pushed

\* ErrorHandler.getRecentErrors(count): errors.slice(-count), count > 0
getRecentErrors(errs, count) ==
  SubSeq(errs, Max(1, Len(errs) - count + 1), Len(errs))

\* ErrorHandler.clearErrors: the log after the call
clearErrors(errs) == << >>

logMediumError(errs, code) == logError(errs, code, "medium")
logHighError(errs, code) == logError(errs, code, "high")

isValidAircraftType(type) == type \in AircraftTypes

\* a validateAircraftType without the fallback: the type as it came, nothing
\* logged (the integrator then finds no specs for an unknown type)
validateAircraftTypeStrict(type, errs) == [type |-> type, errors |-> errs]

\* a validateAircraftType that falls back to the airliner
validateAircraftTypeAirliner(type, errs) ==
  IF isValidAircraftType(type) THEN [type |-> type, errors |-> errs]
  ELSE [type |-> "boeing737", errors |-> logHighError(errs, "AIRCRAFT_002")]

\* validateAircraftType: [type, errors after the call]
validateAircraftType(type, errs) ==
  IF isValidAircraftType(type) THEN [type |-> type, errors |-> errs]
  ELSE [type |-> "cessna172", errors |-> logHighError(errs, "AIRCRAFT_002")]

(***************************************************************************)
(* Force model (physics/aerodynamics.ts)                                   *)
(***************************************************************************)
\* getAirDensity: the barometric formula, tabulated at these altitudes (m)
\* and interpolated; g/m^3.
DensityTable ==
  << <<0, 1225>>, <<1000, 1112>>, <<2000, 1006>>, <<3000, 909>>, <<5000, 736>>,
     <<8000, 525>>, <<12000, 319>>, <<20000, 95>> >>
getAirDensity(altitude) == Interp(DensityTable, altitude \div 100)

\* Math.pow(densityRatio, e) for e = 0.7, 0.1, 0.05, tabulated on the ratio
\* (1/1000) and interpolated.
Pow07Table ==
  << <<0, 0>>, <<100, 200>>, <<200, 324>>, <<300, 431>>, <<400, 527>>, <<500, 616>>,
     <<600, 699>>, <<700, 779>>, <<800, 855>>, <<900, 929>>, <<1000, 1000>>, <<1100, 1069>> >>
Pow01Table ==
  << <<0, 0>>, <<100, 794>>, <<200, 851>>, <<300, 887>>, <<400, 912>>, <<500, 933>>,
     <<600, 950>>, <<700, 965>>, <<800, 978>>, <<900, 990>>, <<1000, 1000>>, <<1100, 1010>> >>
Pow005Table ==
  << <<0, 0>>, <<100, 891>>, <<200, 923>>, <<300, 942>>, <<400, 955>>, <<500, 966>>,
     <<600, 975>>, <<700, 982>>, <<800, 989>>, <<900, 995>>, <<1000, 1000>>, <<1100, 1005>> >>

\* 0.5 * airDensity * speed^2 in Pa; speed in cm/s
DynamicPressure(airDensity, speed) ==
  LET sd == speed \div 10 IN MulDiv(sd * sd, airDensity, 200000)

\* calculateLift, l.28-50: the lift coefficient adjusted by angle of attack
AdjustedLiftCoeff(liftCoefficient, angleOfAttack, type) ==
  IF type = "f16"
  THEN IF angleOfAttack >= -100 /\ angleOfAttack <= 350
       THEN MulDiv(liftCoefficient, Milli + angleOfAttack * 5, Milli)
       ELSE IF angleOfAttack > 350 /\ angleOfAttack <= 520
       THEN MulDiv(liftCoefficient, 2750 - (angleOfAttack - 350) * 2, Milli)
       ELSE IF angleOfAttack > 520
       THEN MulDiv(liftCoefficient, 400, Milli)
       ELSE liftCoefficient
  ELSE IF angleOfAttack >= -100 /\ angleOfAttack <= 250
       THEN MulDiv(liftCoefficient, Milli + angleOfAttack * 4, Milli)
       ELSE IF angleOfAttack > 250
       THEN MulDiv(liftCoefficient, Max(300, Milli - (angleOfAttack - 250) * 3), Milli)
       ELSE liftCoefficient

\* calculateLift: N, along the aircraft's up axis
calculateLift(velocity, airDensity, wingArea, liftCoefficient, angleOfAttack, aircraft) ==
  LET speed == VLength(velocity)
      dynamicPressure == DynamicPressure(airDensity, speed)
      adjustedLiftCoeff == AdjustedLiftCoeff(liftCoefficient, angleOfAttack, aircraft.type)
      liftMagnitude == MulDiv(MulDiv(dynamicPressure, wingArea, 10), adjustedLiftCoeff, Milli)
  IN VScale(EulerUp(aircraft.rotation), liftMagnitude, Milli)

\* calculateDrag: N, against the velocity
calculateDrag(velocity, airDensity, wingArea, dragCoefficient, aircraft) ==
  LET speed == VLength(velocity)
      dynamicPressure == DynamicPressure(airDensity, speed)
      adjustedDragCoeff == IF aircraft.landingGear THEN MulDiv(dragCoefficient, 13, 10)
                           ELSE dragCoefficient
      dragMagnitude == MulDiv(MulDiv(dynamicPressure, wingArea, 10), adjustedDragCoeff, 10000)
  IN IF speed = 0 THEN VZero
     ELSE VScale(VNormalize(velocity, Milli), -dragMagnitude, Milli)

\* a thrust curve whose afterburner stage starts again from nothing
ThrustWithoutMilitaryBase(throttle, airDensity, altitude, airspeedKmh, aircraftType) ==
  IF throttle <= 500 THEN throttle * 5500 ELSE (throttle - 500) * 8800

\* calculateThrust, l.95-155: the thrust magnitude in N.  throttle in 1/1000,
\* airDensity g/m^3, altitude cm, airspeedKmh in 1/1000 km/h.
ThrustMagnitude(throttle, airDensity, altitude, airspeedKmh, aircraftType) ==
  LET densityRatio == MulDiv(airDensity, Milli, AIR_DENSITY_SEA_LEVEL)
      altitudeFactor == Interp(Pow07Table, densityRatio)
  IN IF aircraftType = "boeing737"
     THEN LET totalMaxThrust == 1920000 * 2
              jetEfficiency == 5
              jetAltitudeFactor == IF altitude < 300000 THEN 4000
                                   ELSE Interp(Pow005Table, densityRatio)
          IN MulDiv(MulDiv(totalMaxThrust, throttle, Milli), jetAltitudeFactor, Milli)
               * jetEfficiency
     ELSE IF aircraftType = "f16"
     THEN LET maxThrust == 1100000
              maxThrustAB == 1100000 * 3
              abThreshold == 500
              f16AltitudeFactor == IF altitude < 200000 THEN 3000
                                   ELSE Interp(Pow01Table, densityRatio)
              abPower == MulDiv(throttle - abThreshold, Milli, Milli - abThreshold)
              thrust0 ==
                IF throttle <= abThreshold
                THEN MulDiv(MulDiv(MulDiv(maxThrust, MulDiv(throttle, Milli, abThreshold), Milli),
                                   f16AltitudeFactor, Milli), 25, 10)
                ELSE MulDiv(MulDiv(maxThrust, f16AltitudeFactor, Milli), 25, 10)
                     + MulDiv(MulDiv(maxThrustAB - maxThrust, abPower, Milli),
                              f16AltitudeFactor, Milli) * 2
              machNumber == MulDiv(airspeedKmh, 1, 1225)
          IN IF machNumber > 1200
             THEN MulDiv(thrust0, Max(800, 1300 - MulDiv(machNumber, 2, 10)), Milli)
             ELSE thrust0
     ELSE LET staticThrust == 30000
              airspeedMs == MulDiv(airspeedKmh, 10, 36)     \* mm/s
              propellerEfficiency ==
                IF airspeedMs <= 30000 THEN 4000
                ELSE IF airspeedMs <= 50000 THEN 3500
                ELSE IF airspeedMs > 60000
                THEN Max(1500, 3000 - (airspeedMs - 60000) \div 60)
                ELSE 1000
              groundBonus == IF altitude < 15000 THEN 35 ELSE 10
          IN MulDiv(MulDiv(MulDiv(MulDiv(staticThrust, throttle, Milli), altitudeFactor, Milli),
                           propellerEfficiency, Milli), groundBonus, 10)

\* calculateThrust: `return forward.multiplyScalar(thrust)` scales the caller's
\* forward vector in place and returns that same object: ret and forward are
\* one object after the call.
calculateThrust(throttle, enginePower, airDensity, altitude, forward, airspeedKmh, aircraftType) ==
  LET thrust == ThrustMagnitude(throttle, airDensity, altitude, airspeedKmh, aircraftType)
      scaled == VScale(forward, thrust, Milli)
  IN [ret |-> scaled, forward |-> scaled]

\* calculateGravity: N
calculateGravity(mass) == Vec(0, (-(GRAVITY * mass)) \div 100, 0)

\* calculateGroundForces: N.  aircraft.altitude in cm, velocity cm/s.
calculateGroundForces(aircraft, velocity, controls, totalForce) ==
  IF aircraft.altitude > 100 \/ ~aircraft.landingGear THEN VZero
  ELSE IF aircraft.altitude <= 60
  THEN LET vertical == IF totalForce.y < 0 THEN Vec(0, -totalForce.y, 0) ELSE VZero
           horizontalVelocity == Vec(velocity.x, 0, velocity.z)
           speed == VLength(horizontalVelocity)
           \* rollingResistance in 1/10000
           rollingResistance == IF controls.brakes THEN 1500 ELSE 2
           normalForce == IF aircraft.type = "boeing737" THEN 245250
                          ELSE IF aircraft.type = "f16" THEN 58860
                          ELSE 6377
           frictionForce == VScale(VNormalize(horizontalVelocity, Milli),
                                   -MulDiv(normalForce, rollingResistance, 10000), Milli)
       IN IF speed > 1 THEN VAdd(vertical, frictionForce) ELSE vertical
  ELSE VZero

(***************************************************************************)
(* Aircraft, ControlInputs, WeatherConditions (types/index.ts)             *)
(*   position cm, rotation mrad, velocity cm/s, fuel 1/10000 litre,        *)
(*   engineRPM 1/1000 rpm, throttle 1/1000, altitude cm, airspeed          *)
(*   1/1000 km/h, verticalSpeed cm/s, heading 1/1000 degree, flaps degrees,*)
(*   gForce 1/1000; windDirection degrees, windSpeed cm/s.                 *)
(* A null aircraft is the object without fields; an aircraft without a     *)
(* type has type "".                                                       *)
(***************************************************************************)
NoFields == [f \in {} |-> 0]
NullAircraft == NoFields

UpdateFields ==
  {"position", "rotation", "velocity", "altitude", "airspeed", "verticalSpeed",
   "heading", "engineRPM", "fuel", "throttle", "flaps", "landingGear", "brakes",
   "gForce"}

\* { ...aircraft, ...update }
Merge(aircraft, update) ==
  [f \in DOMAIN aircraft \cup DOMAIN update |->
     IF f \in DOMAIN update THEN update[f] ELSE aircraft[f]]

\* !aircraft || !aircraft.type
IsInvalidAircraft(aircraft) ==
  IF aircraft = NullAircraft THEN TRUE
  ELSE IF "type" \notin DOMAIN aircraft THEN TRUE
  ELSE aircraft.type = ""

\* ((a % 360) + 360) % 360 on 1/1000 degrees, with JavaScript's remainder
JsRem(a, b) == Sign(a) * (Abs(a) % b)
NormalizeHeading(deg) == JsRem(JsRem(deg, 360000) + 360000, 360000)

\* updateAircraftPhysics l.305-313
GroundLevel(type) ==
  IF type = "boeing737" THEN 800 ELSE IF type = "f16" THEN 400 ELSE 250

\* a ground clamp that puts the aircraft on its gear but keeps its downward speed
GroundClampPositionOnly(newPosition, newVelocity, groundLevel, landingGear) ==
  IF newPosition.y < groundLevel /\ landingGear
  THEN [position |-> [newPosition EXCEPT !.y = groundLevel], velocity |-> newVelocity]
  ELSE [position |-> newPosition, velocity |-> newVelocity]

\* updateAircraftPhysics l.315-321: [position, velocity] after the ground clamp
GroundClamp(newPosition, newVelocity, groundLevel, landingGear) ==
  IF newPosition.y < groundLevel /\ landingGear
  THEN [position |-> [newPosition EXCEPT !.y = groundLevel],
        velocity |-> IF newVelocity.y < 0 THEN [newVelocity EXCEPT !.y = 0]
                     ELSE newVelocity]
  ELSE [position |-> newPosition, velocity |-> newVelocity]

\* updateAircraftPhysics l.251-256: the wind vector, cm/s
WindVector(weather) ==
  LET windAngle == MulDiv(weather.windDirection, PI, 180)
  IN Vec(MulDiv(Sin(windAngle), weather.windSpeed, Milli), 0,
         MulDiv(Cos(windAngle), weather.windSpeed, Milli))

\* Vector3.projectOnPlane(planeNormal), on a clone of v
ProjectOnPlane(v, planeNormal) ==
  LET denominator == VDot(planeNormal, planeNormal)
  IN IF denominator = 0 THEN v
     ELSE VSub(v, VScale(planeNormal, MulDiv(VDot(v, planeNormal), Milli, denominator), Milli))

\* updateAircraftPhysics l.259-263: Math.atan2(velocityInPlane.dot(up),
\* -velocityInPlane.dot(forward)), mrad
AngleOfAttack(relativeVelocity, rotation) ==
  LET velocityInPlane == ProjectOnPlane(relativeVelocity, EulerRight(rotation))
  IN Atan2(VDot(velocityInPlane, EulerUp(rotation)),
           -VDot(velocityInPlane, EulerForward(rotation)))

\* updateAircraftPhysics l.266-281: lift + drag + thrust + gravity, N
\* (l.272-274: lift and drag times 1 + flaps/40 * 0.5 = (80 + flaps)/80)
AirForce(aircraft, controls, validatedType, relativeVelocity, angleOfAttack, airDensity) ==
  LET specs == AIRCRAFT_SPECS[validatedType]
      lift == VScale(calculateLift(relativeVelocity, airDensity, specs.wingArea,
                                   specs.liftCoefficient, angleOfAttack, aircraft),
                     80 + aircraft.flaps, 80)
      drag == VScale(calculateDrag(relativeVelocity, airDensity, specs.wingArea,
                                   specs.dragCoefficient, aircraft),
                     80 + aircraft.flaps, 80)
      thrust == calculateThrust(controls.throttle, specs.enginePower, airDensity,
                                aircraft.altitude, EulerForward(aircraft.rotation),
                                aircraft.airspeed, validatedType).ret
      gravity == calculateGravity(specs.weight)
  IN VAdd(VAdd(VAdd(lift, drag), thrust), gravity)

\* updateAircraftPhysics l.284-285: totalForce.add(groundForces), N
WithGroundForces(aircraft, controls, totalForce) ==
  VAdd(totalForce, calculateGroundForces(aircraft, aircraft.velocity, controls, totalForce))

\* updateAircraftPhysics l.288-297: what the one vector object totalForce holds
\* after `acceleration = totalForce.divideScalar(weight)` and
\* `acceleration.multiplyScalar(deltaTime)`, both in place: acceleration *
\* deltaTime, cm/s.  netForce in N.
TotalForceAfterScaling(netForce, weight, deltaTime) ==
  VScale(VScale(netForce, 100, weight), deltaTime, Milli)

\* control (1/1000) * pi/180 * degPerSec * factor (1/1000), in 1/1000 mrad/s
Rate(control, degPerSec, factor) ==
  MulDiv(MulDiv(control * degPerSec, PI, 180), factor, Milli)

\* updateAircraftPhysics l.323-367: the new rotation.  totalForceY is
\* totalForce.y as l.344 reads it.
NewRotation(aircraft, controls, deltaTime, weight, totalForceY) ==
  LET baseSpeed == IF aircraft.type = "boeing737" THEN 200 ELSE 50
      speedFactor == Max(100, Min(Milli, aircraft.airspeed \div baseSpeed))
      onGround == aircraft.altitude < 100 /\ aircraft.landingGear
      groundSpeed == IF aircraft.type = "boeing737" THEN 50 ELSE 30
      currentG == Abs((totalForceY * Milli) \div (weight * GRAVITY))
      gFactor == Min(Milli, (9 * Milli * Milli) \div Max(Milli, currentG))
      pitchRate == IF onGround THEN 0
                   ELSE IF aircraft.type = "f16"
                   THEN MulDiv(Rate(controls.pitch, 180, speedFactor), gFactor, Milli)
                   ELSE IF aircraft.type = "boeing737"
                   THEN Rate(controls.pitch, 20, speedFactor)
                   ELSE Rate(controls.pitch, 30, speedFactor)
      rollRate == IF onGround THEN 0
                  ELSE IF aircraft.type = "f16" THEN Rate(controls.roll, 270, speedFactor)
                  ELSE IF aircraft.type = "boeing737" THEN Rate(controls.roll, 40, speedFactor)
                  ELSE Rate(controls.roll, 60, speedFactor)
      yawRate == IF onGround
                 THEN Rate(controls.yaw, 30, Min(Milli, aircraft.airspeed \div groundSpeed))
                 ELSE IF aircraft.type = "f16" THEN Rate(controls.yaw, 45, speedFactor)
                 ELSE IF aircraft.type = "boeing737" THEN Rate(controls.yaw, 15, speedFactor)
                 ELSE Rate(controls.yaw, 20, speedFactor)
  IN Vec(aircraft.rotation.x + MulDiv(pitchRate, deltaTime, Milli * Milli),
         aircraft.rotation.y + MulDiv(yawRate, deltaTime, Milli * Milli),
         aircraft.rotation.z + MulDiv(rollRate, deltaTime, Milli * Milli))

\* an engine that answers ten times as fast
NewEngineRPMFast(aircraft, controls, deltaTime) ==
  aircraft.engineRPM
    + MulDiv((IF aircraft.type = "boeing737" THEN controls.throttle * 100
              ELSE controls.throttle * 2700) - aircraft.engineRPM, deltaTime * 30, Milli)

\* updateAircraftPhysics l.374-381
NewEngineRPM(aircraft, controls, deltaTime) ==
  LET targetRPM == IF aircraft.type = "boeing737" THEN controls.throttle * 100
                   ELSE controls.throttle * 2700
      currentRPM == aircraft.engineRPM
      rpmChange == MulDiv(targetRPM - currentRPM, deltaTime * 3, Milli)
  IN currentRPM + rpmChange

\* a fuel consumption without the floor at the empty tank
NewFuelUnfloored(aircraft, controls, deltaTime, specs) ==
  aircraft.fuel - (specs.fuelConsumption * controls.throttle * deltaTime) \div 360000

\* updateAircraftPhysics l.386-388
NewFuel(aircraft, controls, deltaTime, specs) ==
  LET fuelConsumption == (specs.fuelConsumption * controls.throttle * deltaTime) \div 360000
  IN Max(0, aircraft.fuel - fuelConsumption)

\* a step that fails half way: only the kinematic fields are returned
KinematicFieldsOnly(aircraft, controls, deltaTime, specs, relativeVelocity, clamped, newRotation, totalForceY) ==
  [position |-> clamped.position, rotation |-> newRotation, velocity |-> clamped.velocity]

\* updateAircraftPhysics l.369-408: the returned object.  clamped is
\* [position, velocity] after the ground clamp, totalForceY is totalForce.y as
\* l.391 reads it.
UpdatedFields(aircraft, controls, deltaTime, specs, relativeVelocity, clamped, newRotation, totalForceY) ==
  [position |-> clamped.position,
   rotation |-> newRotation,
   velocity |-> clamped.velocity,
   altitude |-> Max(50, clamped.position.y),
   airspeed |-> VLength(relativeVelocity) * 36,
   verticalSpeed |-> clamped.velocity.y,
   heading |-> NormalizeHeading(MulDiv(newRotation.y, 180000, PI)),
   engineRPM |-> NewEngineRPM(aircraft, controls, deltaTime),
   fuel |-> NewFuel(aircraft, controls, deltaTime, specs),
   throttle |-> controls.throttle,
   flaps |-> aircraft.flaps,
   landingGear |-> controls.landingGear,
   brakes |-> controls.brakes,
   gForce |-> (totalForceY * Milli) \div (specs.weight * GRAVITY) + Milli]

\* updateAircraftPhysics l.295-303: [position, velocity] projected for the end
\* of the step, before the ground clamp
Projected(aircraft, deltaTime, velocityChange) ==
  LET newVelocity == VAdd(aircraft.velocity, velocityChange)
  IN [position |-> VAdd(aircraft.position, VScale(newVelocity, deltaTime, Milli)),
      velocity |-> newVelocity]

\* updateAircraftPhysics l.305-321: the ground clamp of the projected state
Kinematics(aircraft, projected) ==
  GroundClamp(projected.position, projected.velocity, GroundLevel(aircraft.type),
              aircraft.landingGear)

\* What v holds after `v.method(...)` without the clone: the result
AfterMethodInPlace(v, result) == result

\* What a vector v of the caller holds after `v.clone().method(...)`: the
\* receiver of the in-place method is the copy, v keeps its value
\* (l.256 aircraft.velocity.clone().sub, l.295 aircraft.velocity.clone().add,
\* l.301 aircraft.position.clone().add)
AfterMethodOnClone(v, result) == v

\* the caller's objects when updateAircraftPhysics returns after a full step
InputsAfterStep(aircraft, controls, weather, relativeVelocity, projected) ==
  [aircraft |-> [aircraft EXCEPT
                   !.velocity = AfterMethodOnClone(
                                  AfterMethodOnClone(aircraft.velocity, relativeVelocity),
                                  projected.velocity),
                   !.position = AfterMethodOnClone(aircraft.position, projected.position)],
   controls |-> controls, weather |-> weather]

\* the caller's objects when updateAircraftPhysics returns early (l.221-241)
InputsAfterReturn(aircraft, controls, weather) ==
  [aircraft |-> aircraft, controls |-> controls, weather |-> weather]

StepFromProjected(aircraft, controls, weather, deltaTime, specs, relativeVelocity, totalForce, projected) ==
  [ret |-> UpdatedFields(aircraft, controls, deltaTime, specs, relativeVelocity,
                         Kinematics(aircraft, projected),
                         NewRotation(aircraft, controls, deltaTime, specs.weight, totalForce.y),
                         totalForce.y),
   projected |-> projected,
   inputs |-> InputsAfterStep(aircraft, controls, weather, relativeVelocity, projected)]

StepFromForce(aircraft, controls, weather, deltaTime, specs, relativeVelocity, totalForce) ==
  StepFromProjected(aircraft, controls, weather, deltaTime, specs, relativeVelocity, totalForce,
                    Projected(aircraft, deltaTime, totalForce))

StepFromAir(aircraft, controls, weather, deltaTime, validatedType, relativeVelocity) ==
  StepFromForce(aircraft, controls, weather, deltaTime, AIRCRAFT_SPECS[validatedType],
    relativeVelocity,
    TotalForceAfterScaling(
      WithGroundForces(aircraft, controls,
        AirForce(aircraft, controls, validatedType, relativeVelocity,
                 AngleOfAttack(relativeVelocity, aircraft.rotation),
                 getAirDensity(aircraft.altitude))),
      AIRCRAFT_SPECS[validatedType].weight, deltaTime))

\* updateAircraftPhysics l.243-408, for a validated type: [ret, projected, inputs]
\* (l.256: sub() acts on a clone of aircraft.velocity)
PhysicsStep(aircraft, controls, weather, deltaTime, validatedType) ==
  StepFromAir(aircraft, controls, weather, deltaTime, validatedType,
              VSub(aircraft.velocity, WindVector(weather)))

\* the outcome of a step together with the error log it leaves
WithErrors(step, errs) ==
  [ret |-> step.ret, errors |-> errs, projected |-> step.projected, inputs |-> step.inputs]

\* an early return of updateAircraftPhysics: no field, nothing projected
EarlyReturn(aircraft, controls, weather, errs) ==
  [ret |-> NoFields, errors |-> errs, projected |-> NoFields,
   inputs |-> InputsAfterReturn(aircraft, controls, weather)]

\* updateAircraftPhysics(aircraft, controls, weather, deltaTime) with the
\* error log `errs`: [ret, errors, projected, inputs] after the call.
updateAircraftPhysics(aircraft, controls, weather, deltaTime, errs) ==
  IF IsInvalidAircraft(aircraft)
  THEN EarlyReturn(aircraft, controls, weather, logHighError(errs, "PHYSICS_001"))
  ELSE IF validateAircraftType(aircraft.type, errs).type \notin DOMAIN AIRCRAFT_SPECS
  THEN EarlyReturn(aircraft, controls, weather,
                   logHighError(validateAircraftType(aircraft.type, errs).errors, "PHYSICS_002"))
  ELSE WithErrors(PhysicsStep(aircraft, controls, weather, deltaTime,
                              validateAircraftType(aircraft.type, errs).type),
                  validateAircraftType(aircraft.type, errs).errors)

\* a stall check in which flaps raise the stall speed
checkStallFlapsRaise(aircraft, errs) ==
  IF IsInvalidAircraft(aircraft)
  THEN [ret |-> FALSE, errors |-> logMediumError(errs, "PHYSICS_004")]
  ELSE [ret |-> aircraft.airspeed * 200
                  < AIRCRAFT_SPECS[validateAircraftType(aircraft.type, errs).type].stallSpeed
                      * Milli * (200 + aircraft.flaps),
        errors |-> validateAircraftType(aircraft.type, errs).errors]

\* checkStall l.412-438: [ret, errors after the call].  airspeed in 1/1000
\* km/h; airspeed < stallSpeed * (1 - flaps/40 * 0.2), both sides times 200.
checkStall(aircraft, errs) ==
  IF IsInvalidAircraft(aircraft)
  THEN [ret |-> FALSE, errors |-> logMediumError(errs, "PHYSICS_004")]
  ELSE IF validateAircraftType(aircraft.type, errs).type \notin DOMAIN AIRCRAFT_SPECS
  THEN [ret |-> FALSE,
        errors |-> logMediumError(validateAircraftType(aircraft.type, errs).errors,
                                  "PHYSICS_002")]
  ELSE [ret |-> aircraft.airspeed * 200
                  < AIRCRAFT_SPECS[validateAircraftType(aircraft.type, errs).type].stallSpeed
                      * Milli * (200 - aircraft.flaps),
        errors |-> validateAircraftType(aircraft.type, errs).errors]

\* checkGroundCollision l.441-443, groundLevel = 0
checkGroundCollision(aircraft) == aircraft.position.y <= 0

Clamp(lo, hi, x) == Max(lo, Min(hi, x))

\* calculateAutopilotControls l.446-485: [ret, errors after the call].
\* targetAltitude cm, targetHeading 1/1000 degree.
calculateAutopilotControls(aircraft, targetAltitude, targetHeading, errs) ==
  IF IsInvalidAircraft(aircraft)
  THEN [ret |-> NoFields, errors |-> logMediumError(errs, "PHYSICS_005")]
  ELSE IF validateAircraftType(aircraft.type, errs).type \notin DOMAIN AIRCRAFT_SPECS
  THEN [ret |-> NoFields,
        errors |-> logMediumError(validateAircraftType(aircraft.type, errs).errors,
                                  "PHYSICS_002")]
  ELSE [ret |->
          [pitch |-> Clamp(-Milli, Milli, (targetAltitude - aircraft.altitude) \div 100),
           yaw |-> Clamp(-Milli, Milli, (targetHeading - aircraft.heading) \div 100),
           throttle |-> Clamp(0, Milli,
                          700 + (AIRCRAFT_SPECS[validateAircraftType(aircraft.type, errs).type]
                                   .cruiseSpeed * Milli - aircraft.airspeed) \div Milli)],
        errors |-> validateAircraftType(aircraft.type, errs).errors]

(***************************************************************************)
(* AdvancedAerodynamics (the aerodynamic state classifier)                 *)
(***************************************************************************)
\* calculateAngleOfAttack: aircraft.velocity.normalize() works in place on the
\* aircraft's own velocity vector; [value, aircraft after the call].
calculateAngleOfAttack(aircraft) ==
  LET velocity == VNormalize(aircraft.velocity, 100)
      forward == EulerForward(aircraft.rotation)
  IN [value |-> Acos(VDot(velocity, forward) \div 100),
      aircraft |-> [aircraft EXCEPT !.velocity = velocity]]

\* calculateSideslipAngle: normalizes aircraft.velocity in place as well.
calculateSideslipAngle(aircraft) ==
  LET velocity == VNormalize(aircraft.velocity, 100)
      right == EulerRight(aircraft.rotation)
  IN [value |-> Asin(VDot(velocity, right) \div 100),
      aircraft |-> [aircraft EXCEPT !.velocity = velocity]]

\* calculateStallState l.123-126: speed (cm/s) / stallSpeed (km/h -> m/s),
\* in 1/1000; taken before the flap adjustment of stallSpeed.
speedStallFactor(aircraft, speed) ==
  (speed * 36) \div AIRCRAFT_SPECS[aircraft.type].stallSpeed

\* calculateStallState l.147-155: effectiveStallSpeed, in mm/s
\* (stallSpeed reduced by flaps, times sqrt|gForce|); no comparison reads it.
effectiveStallSpeed(aircraft) ==
  LET stallSpeed0 == (AIRCRAFT_SPECS[aircraft.type].stallSpeed * 10000) \div 36
      stallSpeed == IF aircraft.flaps > 0
                    THEN MulDiv(stallSpeed0, 4000 - aircraft.flaps * 30, 4000)
                    ELSE stallSpeed0
      gFactor == ISqrt(Abs(aircraft.gForce) * Milli)
  IN MulDiv(stallSpeed, gFactor, Milli)

\* calculateStallState l.132-151: <<criticalAoA, deepStallAoA>> in 1/100 mrad
StallAngles(aircraft) ==
  LET base == IF aircraft.type = "f16" THEN <<35000, 52000>>
              ELSE IF aircraft.type = "boeing737" THEN <<25000, 35000>>
              ELSE <<30000, 42000>>
  IN IF aircraft.flaps > 0
     THEN <<base[1] + aircraft.flaps * 250, base[2]>>
     ELSE base

\* a classification that tests the stalled condition before the deep stall
calculateStallStateStalledFirst(aircraft, angleOfAttack, speed, controls) ==
  IF angleOfAttack * 100 > StallAngles(aircraft)[1] \/ speedStallFactor(aircraft, speed) < 800
  THEN "stalled"
  ELSE IF angleOfAttack * 100 > StallAngles(aircraft)[2]
  THEN "deep_stall"
  ELSE IF angleOfAttack * 1000 > StallAngles(aircraft)[1] * 8
          \/ speedStallFactor(aircraft, speed) < 1100
  THEN "approaching"
  ELSE "clean"

\* calculateStallState l.157-165; angleOfAttack mrad, speed cm/s
calculateStallState(aircraft, angleOfAttack, speed, controls) ==
  LET ratio == speedStallFactor(aircraft, speed)
      criticalAoA == StallAngles(aircraft)[1]
      deepStallAoA == StallAngles(aircraft)[2]
      aoa == angleOfAttack * 100
  IN IF aoa > deepStallAoA \/ (ratio < 700 /\ aoa * 10 > criticalAoA * 8)
     THEN "deep_stall"
     ELSE IF aoa > criticalAoA \/ ratio < 800
     THEN "stalled"
     ELSE IF aoa * 10 > criticalAoA * 8 \/ ratio < 1100
     THEN "approaching"
     ELSE "clean"

\* a spin classification that does not look at the stall state first
calculateSpinStateUngated(aircraft, stallState, sideslipAngle, controls) ==
  IF Abs(aircraft.velocity.y) > 50 /\ Abs(controls.roll) > 300 /\ Abs(sideslipAngle) > 200
  THEN IF stallState = "deep_stall" /\ Abs(aircraft.velocity.y) > 100 THEN "flat"
       ELSE IF Abs(aircraft.velocity.y) > 80 THEN "developed"
       ELSE "incipient"
  ELSE "none"

\* calculateSpinState; sideslipAngle mrad; velocity.y in cm/s is the "yaw rate"
calculateSpinState(aircraft, stallState, sideslipAngle, controls) ==
  IF stallState # "stalled" /\ stallState # "deep_stall" THEN "none"
  ELSE LET yawRate == Abs(aircraft.velocity.y)
           rollRate == Abs(controls.roll)
       IN IF yawRate > 50 /\ rollRate > 300 /\ Abs(sideslipAngle) > 200
          THEN IF stallState = "deep_stall" /\ yawRate > 100 THEN "flat"
               ELSE IF yawRate > 80 THEN "developed"
               ELSE "incipient"
          ELSE "none"

\* calculateGroundEffect l.203: wingspan estimated from the wing area, cm
Wingspan(type) == ISqrt(AIRCRAFT_SPECS[type].wingArea * Milli) * 2

\* a ground effect whose last part decays at half the rate
calculateGroundEffectSlow(aircraft) ==
  IF Max(0, aircraft.altitude) > Wingspan(aircraft.type) * 2 THEN 0
  ELSE IF Max(0, aircraft.altitude) * 10 <= Wingspan(aircraft.type) THEN Milli
  ELSE IF Max(0, aircraft.altitude) <= Wingspan(aircraft.type)
  THEN Milli - MulDiv(Max(0, aircraft.altitude), Milli, Wingspan(aircraft.type))
  ELSE Max(0, 500 - (MulDiv(Max(0, aircraft.altitude), Milli, Wingspan(aircraft.type)) - Milli) \div 4)

\* calculateGroundEffect, 1/1000; the ratio's comparisons with 0.1 and 1.0
\* are taken on the height and the wingspan themselves
calculateGroundEffect(aircraft) ==
  LET wingspan == Wingspan(aircraft.type)
      heightAboveGround == Max(0, aircraft.altitude)
      heightToSpanRatio == MulDiv(heightAboveGround, Milli, wingspan)
  IN IF heightAboveGround > wingspan * 2 THEN 0
     ELSE IF heightAboveGround * 10 <= wingspan THEN Milli
     ELSE IF heightAboveGround <= wingspan THEN Milli - heightToSpanRatio
     ELSE Max(0, 500 - (heightToSpanRatio - Milli) \div 2)

\* getSoundSpeed: sqrt(1.4 * 287 * (288.15 - altitude * 0.0065)), cm/s
getSoundSpeed(altitude) ==
  LET temperature == 28815 - MulDiv(altitude \div 100, 65, 100)     \* 1/100 K
  IN ISqrt(4018 * Max(0, temperature) * 10)

\* calculateCompressibilityEffect, 1/1000
calculateCompressibilityEffect(aircraft, speed, altitude) ==
  LET mach == (speed * Milli) \div Max(1, getSoundSpeed(altitude))
  IN IF mach < 300 THEN Milli
     ELSE IF mach < 700 THEN Milli + (mach - 300) \div 10
     ELSE IF mach < Milli THEN 1040 + (mach - 700)
     ELSE 1500 + (mach - Milli) \div 5

\* calculateWakeStrength, 1/1000
calculateWakeStrength(aircraft, weather) ==
  Max(0, VLength(aircraft.velocity) \div 10 - weather.windSpeed \div 5)

\* calculateTurbulence, 1/1000
calculateTurbulence(aircraft, weather) ==
  LET t1 == weather.turbulence
            + (IF aircraft.altitude < 100000 THEN 200
               ELSE IF aircraft.altitude > 1000000 THEN 100 ELSE 0)
      speed == VLength(aircraft.velocity)
      t2 == IF speed > 20000 THEN t1 + (speed - 20000) \div 100 ELSE t1
  IN Min(Milli, t2)

\* calculateGLoading, 1/1000; deltaTime ms > 0
calculateGLoading(aircraft, deltaTime) ==
  Milli + (aircraft.velocity.y * Milli * Milli) \div (deltaTime * GRAVITY)

shouldTriggerStallWarning(stallState) ==
  stallState = "approaching" \/ stallState = "stalled"

\* calculateSpinRecovery
calculateSpinRecovery(aircraft, stallState, spinType, controls) ==
  IF spinType = "none"
  THEN [required |-> FALSE, technique |-> "normal", power |-> controls.throttle,
        controls |-> controls]
  ELSE IF spinType = "incipient"
  THEN [required |-> TRUE, technique |-> "Reduce power, opposite rudder, forward stick",
        power |-> 100,
        controls |-> [controls EXCEPT !.throttle = 100, !.yaw = -Sign(controls.yaw) * 800,
                                      !.pitch = -500]]
  ELSE IF spinType = "developed"
  THEN [required |-> TRUE, technique |-> "POWER IDLE, full opposite rudder, stick forward",
        power |-> 0,
        controls |-> [controls EXCEPT !.throttle = 0, !.yaw = -Sign(controls.yaw) * Milli,
                                      !.pitch = -800]]
  ELSE [required |-> TRUE,
        technique |-> "Emergency procedure: Full forward stick, opposite rudder, may require parachute",
        power |-> 0,
        controls |-> [controls EXCEPT !.throttle = 0, !.yaw = -Sign(controls.yaw) * Milli,
                                      !.pitch = -Milli]]

\* calculateAerodynamicState, the returned object, given the stall state and
\* the spin type it has computed
AerodynamicState(aircraft, controls, weather, deltaTime, speed, altitude, stallState, spinType) ==
  [stallState |-> stallState,
   spinType |-> spinType,
   groundEffect |-> calculateGroundEffect(aircraft),
   compressibilityFactor |-> calculateCompressibilityEffect(aircraft, speed, altitude),
   wakeStrength |-> calculateWakeStrength(aircraft, weather),
   turbulenceLevel |-> calculateTurbulence(aircraft, weather),
   gLoading |-> calculateGLoading(aircraft, deltaTime),
   stallWarning |-> shouldTriggerStallWarning(stallState),
   spinRecovery |-> calculateSpinRecovery(aircraft, stallState, spinType, controls)]

\* calculateAerodynamicState from the stall state on
StateFromStall(aircraft, controls, weather, deltaTime, speed, angleOfAttack, sideslipAngle, stallState) ==
  [state |-> AerodynamicState(aircraft, controls, weather, deltaTime, speed, aircraft.altitude,
                              stallState,
                              calculateSpinState(aircraft, stallState, sideslipAngle, controls)),
   angleOfAttack |-> angleOfAttack, sideslipAngle |-> sideslipAngle, aircraft |-> aircraft]

\* calculateAerodynamicState from the two angles on; aircraft is the object as
\* calculateAngleOfAttack and calculateSideslipAngle have left it
StateFromAngles(aircraft, controls, weather, deltaTime, speed, angleOfAttack, sideslipAngle) ==
  StateFromStall(aircraft, controls, weather, deltaTime, speed, angleOfAttack, sideslipAngle,
                 calculateStallState(aircraft, angleOfAttack, speed, controls))

\* calculateAerodynamicState from the sideslip call on; aoaCall is what
\* calculateAngleOfAttack returned and left
StateFromAoA(aoaCall, slipCall, controls, weather, deltaTime, speed) ==
  StateFromAngles(slipCall.aircraft, controls, weather, deltaTime, speed,
                  aoaCall.value, slipCall.value)

StateFromAoACall(aoaCall, controls, weather, deltaTime, speed) ==
  StateFromAoA(aoaCall, calculateSideslipAngle(aoaCall.aircraft), controls, weather,
               deltaTime, speed)

\* calculateAerodynamicState: [state, angleOfAttack, sideslipAngle, aircraft
\* after the call]; speed is read (l.48) before the angles are computed (l.52-53)
calculateAerodynamicState(aircraft, controls, weather, deltaTime) ==
  StateFromAoACall(calculateAngleOfAttack(aircraft), controls, weather, deltaTime,
                   VLength(aircraft.velocity))

\* calculateAdvancedAerodynamics: the state (stored in previousState), and the
\* aircraft object after the call
calculateAdvancedAerodynamics(aircraft, controls, weather, deltaTime) ==
  calculateAerodynamicState(aircraft, controls, weather, deltaTime)

(***************************************************************************)
(* The store (simulatorStore) and the test fixtures                        *)
(***************************************************************************)
\* createDefaultAircraft(type)
createDefaultAircraft(type) ==
  [type |-> type,
   position |-> Vec(0, GroundLevel(type), 0),
   rotation |-> Vec(0, 5938, 0),
   velocity |-> VZero,
   fuel |-> AIRCRAFT_SPECS[type].fuelCapacity * 10000,
   engineRPM |-> 0, throttle |-> 0, altitude |-> GroundLevel(type), airspeed |-> 0,
   verticalSpeed |-> 0, heading |-> 340000, flaps |-> 0, landingGear |-> TRUE,
   brakes |-> TRUE, gForce |-> Milli]

defaultControls ==
  [pitch |-> 0, roll |-> 0, yaw |-> 0, throttle |-> 0, flaps |-> 0,
   landingGear |-> TRUE, brakes |-> TRUE, autopilot |-> FALSE]

defaultWeather == [windDirection |-> 0, windSpeed |-> 0, turbulence |-> 0]

\* aerodynamics.test.ts: mockAircraft, with the given type
mockAircraft(type) ==
  [type |-> type,
   position |-> Vec(0, 100000, 0),
   rotation |-> VZero,
   velocity |-> Vec(0, 0, -5000),
   fuel |-> 1000000, engineRPM |-> 2000000, throttle |-> 700, altitude |-> 100000,
   airspeed |-> 180000, verticalSpeed |-> 0, heading |-> 0, flaps |-> 0,
   landingGear |-> FALSE, brakes |-> FALSE, gForce |-> Milli]

\* aerodynamics.test.ts: mockControls
mockControls ==
  [pitch |-> 0, roll |-> 0, yaw |-> 0, throttle |-> 700, flaps |-> 0,
   landingGear |-> FALSE, brakes |-> FALSE, autopilot |-> FALSE]

\* an aircraft descending through 0.3 m with the gear down (scenario B)
lowAircraft(type) ==
  [mockAircraft(type) EXCEPT !.position = Vec(0, 30, 0), !.altitude = 30,
                             !.velocity = Vec(0, -300, -3000), !.airspeed = 108000,
                             !.verticalSpeed = -300, !.landingGear = TRUE,
                             !.flaps = 20]

(***************************************************************************)
(* Bounds and input sets                                                   *)
(***************************************************************************)
MaxSteps == 2

\* the speed (cm/s) up to which a step is taken (keeps the arithmetic in range)
SpeedCap == 100000

DeltaTimes == {16, 50}

ControlChoices ==
  { defaultControls,
    mockControls,
    [defaultControls EXCEPT !.throttle = Milli, !.brakes = FALSE, !.yaw = 500],
    [mockControls EXCEPT !.pitch = 500, !.roll = -400, !.throttle = 900] }

WeatherChoices == { defaultWeather, [defaultWeather EXCEPT !.windDirection = 90,
                                                           !.windSpeed = 500] }

\* an aircraft rolling at 0.3 m with the gear down and a small upward speed
risingAircraft ==
  [lowAircraft("cessna172") EXCEPT !.velocity = Vec(0, 200, -3000), !.verticalSpeed = 200]

InitialAircraft ==
  { createDefaultAircraft(t) : t \in AircraftTypes }
    \cup { risingAircraft }
    \cup { mockAircraft(t) : t \in AircraftTypes \cup {"unknown", ""} }
    \cup { lowAircraft(t) : t \in AircraftTypes }
    \cup { NullAircraft }

(***************************************************************************)
(* State                                                                   *)
(***************************************************************************)
VARIABLES
  aircraft,        \* store.aircraft
  controls,        \* store.controls
  weather,         \* store.weather
  isPaused,        \* store.isPaused
  simulationTime,  \* store.simulationTime, ms
  errors,          \* errorHandler.errors
  frameCount,      \* usePhysicsUpdate: frameCount.current
  cache,           \* usePhysicsUpdate: physicsCache.current
  lastCall,        \* the last call of the integrator: its arguments before and
                   \* after the call, and what it returned
  aero,            \* the last call of the classifier: its arguments before and
                   \* after the call, and the state it returned (previousState)
  fn,              \* the last call of a pure function: arguments and result
  steps            \* operations so far

vars == <<aircraft, controls, weather, isPaused, simulationTime, errors, frameCount, cache,
          lastCall, aero, fn, steps>>

NoCall == [op |-> "none"]

\* physicsCache.current = {}
NoCache ==
  [lastAircraft |-> NoFields, lastControls |-> NoFields, lastWeather |-> NoFields,
   canSkipUpdate |-> FALSE]

InitStore ==
  /\ controls = defaultControls
  /\ isPaused = FALSE
  /\ simulationTime = 0
  /\ errors = << >>
  /\ frameCount = 0
  /\ cache = NoCache
  /\ lastCall = NoCall
  /\ aero = NoCall
  /\ fn = NoCall
  /\ steps = 0

Init ==
  /\ aircraft \in InitialAircraft
  /\ weather \in WeatherChoices
  /\ InitStore

InRange(ac) == IF IsInvalidAircraft(ac) THEN TRUE ELSE VLength(ac.velocity) <= SpeedCap

\* One integrator step: updateAircraftPhysics(aircraft, c, weather, dt), and
\* the caller's merge { ...aircraft, ...updated } (setAircraft).
Integrate(c, dt) ==
  /\ steps < MaxSteps
  /\ InRange(aircraft)
  /\ LET call == updateAircraftPhysics(aircraft, c, weather, dt, errors)
     IN /\ lastCall' = [op |-> "updateAircraftPhysics",
                        aircraft |-> aircraft, controls |-> c, weather |-> weather,
                        deltaTime |-> dt,
                        aircraftAfter |-> call.inputs.aircraft, controlsAfter |-> call.inputs.controls,
                        weatherAfter |-> call.inputs.weather,
                        errors |-> errors, errorsAfter |-> call.errors,
                        projected |-> call.projected, ret |-> call.ret]
        /\ aircraft' = Merge(call.inputs.aircraft, call.ret)
        /\ errors' = call.errors
  /\ controls' = c
  /\ steps' = steps + 1
  /\ UNCHANGED <<weather, isPaused, simulationTime, frameCount, cache, aero, fn>>

Next == \E c \in ControlChoices, dt \in DeltaTimes : Integrate(c, dt)

Spec == Init /\ [][Next]_vars

\* --- the engine and the tank over successive steps ---
\* the largest targetRPM of a type (l.375-378), 1/1000 rpm
MaxTargetRPM(type) == IF type = "boeing737" THEN 100 * Milli ELSE 2700 * Milli

\* the test aircraft of a type with the engine at rpm and fuel in the tank
engineAircraft(type, rpm, fuel) ==
  [mockAircraft(type) EXCEPT !.engineRPM = rpm, !.fuel = fuel]

\* engine stopped and tank empty; engine at its largest target and a tank
\* that one step empties; engine at half and a tank well filled
EngineAircraft ==
  UNION { { engineAircraft(t, 0, 0),
            engineAircraft(t, MaxTargetRPM(t), 3),
            engineAircraft(t, MaxTargetRPM(t) \div 2, 1000000) } : t \in AircraftTypes }

InitEngine ==
  /\ aircraft \in EngineAircraft
  /\ weather = defaultWeather
  /\ InitStore

SpecEngine == InitEngine /\ [][Next]_vars

\* --- ground contact ---
\* aerodynamics.test.ts l.248: groundAircraft, the test aircraft at 0.3 m
\* (its landing gear is retracted)
groundAircraft(type) ==
  [mockAircraft(type) EXCEPT !.position = Vec(0, 30, 0), !.altitude = 30]

ContactAircraft ==
  { groundAircraft(t) : t \in AircraftTypes } \cup { lowAircraft(t) : t \in AircraftTypes }

InitContact ==
  /\ aircraft \in ContactAircraft
  /\ weather = defaultWeather
  /\ InitStore

SpecContact == InitContact /\ [][Next]_vars

(***************************************************************************)
(* The adaptive frame driver (usePhysicsUpdate, hooks/useEngineSound.ts)   *)
(***************************************************************************)
\* l.432-452 without the ceiling of the low tier: the frame's delta passes
TargetDeltaOpen(avgFps) ==
  IF avgFps < 45 THEN 1000
  ELSE 1000 \div 60

\* l.434-452: the ceiling of the time step for the average frame rate, ms
\* (1/60, 1/30, 1/20 s)
TargetDelta(avgFps) ==
  IF avgFps < 45 THEN 1000 \div 30
  ELSE IF avgFps < 30 THEN 1000 \div 20
  ELSE 1000 \div 60

\* l.436-450: whether physics runs in the frame numbered count
FrameRuns(avgFps, count) ==
  IF avgFps < 45 THEN count % 2 = 0
  ELSE IF avgFps < 30 THEN count % 3 = 0
  ELSE TRUE

\* cache.lastControls?.pitch || 0, cache.lastControls?.roll || 0
CachedControl(ch, axis) ==
  IF ch.lastControls = NoFields THEN 0 ELSE ch.lastControls[axis]

\* l.456-462
hasSignificantChange(ac, c, ch) ==
  IF ch.lastAircraft = NoFields THEN TRUE
  ELSE IF Abs(ac.throttle - ch.lastAircraft.throttle) > 10 THEN TRUE
  ELSE IF Abs(c.pitch - CachedControl(ch, "pitch")) > 10 THEN TRUE
  ELSE IF Abs(c.roll - CachedControl(ch, "roll")) > 10 THEN TRUE
  ELSE ac.airspeed > 10000

\* l.472-480: [controls, errors]; the autopilot flies to 1000 m on the
\* present heading
effectiveControls(ac, c, errs) ==
  IF c.autopilot
  THEN [controls |-> Merge(c, calculateAutopilotControls(ac, 100000, ac.heading, errs).ret),
        errors |-> calculateAutopilotControls(ac, 100000, ac.heading, errs).errors]
  ELSE [controls |-> c, errors |-> errs]

\* l.500-530: the update after the ground-collision handling.  ac is the
\* aircraft of the frame, c the stored controls, due.ground whether the 500 ms
\* interval of the ground check has passed.
GroundContact(ac, c, updated, due) ==
  IF (ac.altitude < 10000 \/ due.ground)
     /\ checkGroundCollision(Merge(ac, updated))
     /\ ac.landingGear /\ ac.airspeed < 200000
  THEN [updated EXCEPT
          !.position = [@ EXCEPT !.y = Max(IF ac.type = "cessna172" THEN 250
                                           ELSE IF ac.type = "boeing737" THEN 800 ELSE 400, @)],
          !.velocity = VScale([@ EXCEPT !.y = Max(0, @)], IF c.brakes THEN 95 ELSE 99, 100)]
  ELSE updated

\* l.533-549: the error log after the stall check, made at an airspeed under
\* 150 km/h or when its 1 s interval has passed (due.stall)
StallChecked(ac, call, due) ==
  IF ac.airspeed < 150000 \/ due.stall
  THEN checkStall(Merge(ac, call.ret), call.errors).errors
  ELSE call.errors

\* the record of a classifier call
AeroCall(ac, c, w, dt, result) ==
  [op |-> "calculateAdvancedAerodynamics", aircraft |-> ac, controls |-> c, weather |-> w,
   deltaTime |-> dt, aircraftAfter |-> result.aircraft, state |-> result.state,
   angleOfAttack |-> result.angleOfAttack, sideslipAngle |-> result.sideslipAngle]

\* the record of an integrator call
PhysicsCall(ac, c, w, dt, errs, call) ==
  [op |-> "updateAircraftPhysics", aircraft |-> ac, controls |-> c, weather |-> w,
   deltaTime |-> dt, aircraftAfter |-> call.inputs.aircraft,
   controlsAfter |-> call.inputs.controls, weatherAfter |-> call.inputs.weather,
   errors |-> errs, errorsAfter |-> call.errors, projected |-> call.projected,
   ret |-> call.ret]

\* what a frame leaves: the stored aircraft, the error log, the cache, the
\* simulation time and the two call records
FrameOutcome(ac, errs, ch, time, aeroCall, physicsCall) ==
  [aircraft |-> ac, errors |-> errs, cache |-> ch, simulationTime |-> time,
   aero |-> aeroCall, lastCall |-> physicsCall]

\* l.491-597: from the integrator call to the end of the frame.  ac0 is the
\* stored aircraft as the frame found it, adv the classifier's result, call the
\* integrator's.
FrameFromPhysics(ac0, c, eff, w, dt, due, errs, time, adv, call) ==
  FrameOutcome(Merge(call.inputs.aircraft, GroundContact(call.inputs.aircraft, c, call.ret, due)),
               StallChecked(call.inputs.aircraft, call, due),
               [lastAircraft |-> call.inputs.aircraft, lastControls |-> c, lastWeather |-> w,
                canSkipUpdate |-> FALSE],
               time + dt,
               AeroCall(ac0, eff, w, dt, adv),
               PhysicsCall(adv.aircraft, eff, w, dt, errs, call))

\* l.483-497: the classifier is called with the stored aircraft object, then
\* the integrator with the same object
FrameFromAero(ac0, c, eff, w, dt, due, errs, time, adv) ==
  FrameFromPhysics(ac0, c, eff, w, dt, due, errs, time, adv,
                   updateAircraftPhysics(adv.aircraft, eff, w, dt, errs))

\* l.483: for a type without specs calculateStallState throws (specs is
\* undefined) after the two angle functions have run; the frame ends there
FrameThrown(ac0, errs, ch, time) ==
  FrameOutcome(calculateSideslipAngle(calculateAngleOfAttack(ac0).aircraft).aircraft,
               errs, ch, time, aero, lastCall)

\* l.470-597: a frame in which physics runs, with the effective controls eff
FrameWithControls(ac0, c, eff, w, dt, due, ch, time) ==
  IF ac0.type \notin DOMAIN AIRCRAFT_SPECS
  THEN FrameThrown(ac0, eff.errors, ch, time)
  ELSE FrameFromAero(ac0, c, eff.controls, w, dt, due, eff.errors, time,
                     calculateAdvancedAerodynamics(ac0, eff.controls, w, dt))

\* l.422-597: the frame of an unpaused simulation, numbered count
FrameBody(ac0, c, w, delta, avgFps, due, count, ch, time) ==
  IF IsInvalidAircraft(ac0)
  THEN FrameOutcome(ac0, logMediumError(errors, "AIRCRAFT_001"), ch, time, aero, lastCall)
  ELSE IF ~FrameRuns(avgFps, count)
  THEN FrameOutcome(ac0, errors, ch, time, aero, lastCall)
  ELSE IF ~hasSignificantChange(ac0, c, ch) /\ avgFps > 50
  THEN FrameOutcome(ac0, errors, [ch EXCEPT !.canSkipUpdate = TRUE], time, aero, lastCall)
  ELSE FrameWithControls(ac0, c, effectiveControls(ac0, c, errors), w,
                         Min(delta, TargetDelta(avgFps)), due, ch, time)


\* bounds and inputs of the frame driver
MaxFrames == 2

\* frame deltas reported by the renderer, ms
FrameDeltas == {10, 100}

\* average frame rates reported by the performance monitor
FrameRates == {60, 40}

\* whether the intervals of the ground check (500 ms, l.504) and of the stall
\* check (1 s, l.534) have passed at the frame's performance.now()
DueChoices == { [ground |-> FALSE, stall |-> FALSE], [ground |-> TRUE, stall |-> TRUE] }

\* a spiralling descent below stall speed: sink 7 m/s, sideways 3 m/s
spiralAircraft(type) ==
  [mockAircraft(type) EXCEPT !.velocity = Vec(-300, -700, -600), !.airspeed = 36000,
                             !.verticalSpeed = -700]

\* a steeper one: sink 9 m/s
steepAircraft(type) ==
  [mockAircraft(type) EXCEPT !.velocity = Vec(-300, -900, -200), !.airspeed = 36000,
                             !.verticalSpeed = -900]

\* a dive, nose 0.8 rad down, slipping 0.27 rad to the right at 50 m/s
divingAircraft ==
  [mockAircraft("cessna172") EXCEPT !.rotation = Vec(-800, 0, 0),
                                    !.velocity = Vec(1335, -3455, -3360),
                                    !.verticalSpeed = -3455]

FrameAircraft ==
  { createDefaultAircraft("cessna172"), divingAircraft, mockAircraft("cessna172"), mockAircraft("f16"),
    mockAircraft("unknown"), lowAircraft("boeing737"), spiralAircraft("cessna172"),
    steepAircraft("f16"), NullAircraft }

FrameControls ==
  { defaultControls,
    [mockControls EXCEPT !.roll = 400],
    [mockControls EXCEPT !.autopilot = TRUE] }

\* The simulation as the frame driver finds it: freshly started, or after 29
\* frames in which the aircraft and the controls were what they are now.
InitFrame ==
  /\ aircraft \in FrameAircraft
  /\ controls \in FrameControls
  /\ weather = defaultWeather
  /\ isPaused = FALSE
  /\ simulationTime = 0
  /\ errors = << >>
  /\ \/ frameCount = 0 /\ cache = NoCache
     \/ /\ frameCount = 29
        /\ ~IsInvalidAircraft(aircraft)
        /\ cache = [lastAircraft |-> aircraft, lastControls |-> controls,
                    lastWeather |-> weather, canSkipUpdate |-> FALSE]
  /\ lastCall = NoCall
  /\ aero = NoCall
  /\ fn = NoCall
  /\ steps = 0

\* the callback without the return of l.396-400: a paused frame runs as well
FrameStepThroughPause(delta, avgFps, w, due, count) ==
  /\ InRange(aircraft)
  /\ UNCHANGED <<controls, isPaused>>
  /\ frameCount' = count
  /\ IF count % 30 = 0 THEN weather' = w
     ELSE w = weather /\ weather' = weather
  /\ LET out == FrameBody(aircraft, controls, weather, delta, avgFps, due,
                          count, cache, simulationTime)
     IN /\ aircraft' = out.aircraft
        /\ errors' = out.errors
        /\ cache' = out.cache
        /\ simulationTime' = out.simulationTime
        /\ aero' = out.aero
        /\ lastCall' = out.lastCall

\* useFrame callback (l.392-597), as the frame numbered count.  delta: the
\* frame's delta, avgFps: the performance monitor's average, w: the weather the
\* weather system gives at the aircraft's position, due: the two timers.
FrameStep(delta, avgFps, w, due, count) ==
  /\ InRange(aircraft)
  /\ UNCHANGED <<controls, isPaused>>
  /\ IF isPaused
     THEN /\ w = weather
          /\ UNCHANGED <<aircraft, weather, simulationTime, errors, frameCount, cache,
                         lastCall, aero>>
     ELSE /\ frameCount' = count
          \* l.409-410: every 30th frame the store takes the weather system's weather
          /\ IF count % 30 = 0 THEN weather' = w
             ELSE w = weather /\ weather' = weather
          /\ LET out == FrameBody(aircraft, controls, weather, delta, avgFps, due,
                                  count, cache, simulationTime)
             IN /\ aircraft' = out.aircraft
                /\ errors' = out.errors
                /\ cache' = out.cache
                /\ simulationTime' = out.simulationTime
                /\ aero' = out.aero
                /\ lastCall' = out.lastCall

\* One of at most MaxFrames operations: a frame, frameCount.current++ (l.402)
Frame(delta, avgFps, w, due) ==
  /\ steps < MaxFrames
  /\ steps' = steps + 1
  /\ FrameStep(delta, avgFps, w, due, frameCount + 1)
  /\ UNCHANGED fn

\* store.setPaused(paused)
setPaused(paused) ==
  /\ steps < MaxFrames
  /\ steps' = steps + 1
  /\ isPaused' = paused
  /\ UNCHANGED <<aircraft, controls, weather, simulationTime, errors, frameCount, cache,
                 lastCall, aero, fn>>

\* store.setControls(c)
setControls(c) ==
  /\ steps < MaxFrames
  /\ steps' = steps + 1
  /\ controls' = Merge(controls, c)
  /\ UNCHANGED <<aircraft, weather, isPaused, simulationTime, errors, frameCount, cache,
                 lastCall, aero, fn>>

NextFrame ==
  \/ \E delta \in FrameDeltas, avgFps \in FrameRates, w \in WeatherChoices, due \in DueChoices :
       Frame(delta, avgFps, w, due)
  \/ \E paused \in BOOLEAN : setPaused(paused)
  \/ \E c \in FrameControls : setControls(c)

SpecFrame == InitFrame /\ [][NextFrame]_vars

(***************************************************************************)
(* Direct calls of the pure functions                                      *)
(***************************************************************************)
MaxCalls == 2

InitFn ==
  /\ aircraft = createDefaultAircraft("cessna172")
  /\ weather = defaultWeather
  /\ InitStore

\* what a call record keeps of the call before it
Previous(call) ==
  IF call.op = "none" THEN NoCall ELSE [call EXCEPT !.prev = NoCall]

\* --- calculateStallState ---
StallFlaps == {0, 20, 40}
StallGForces == {Milli, 4 * Milli}
\* angles of attack, mrad
StallAngleChoices == {0, 150, 230, 260, 290, 330, 380, 430, 530, 1571}
\* speeds, cm/s
StallSpeedChoices == {0, 1500, 1800, 2000, 2200, 2700, 4500, 5200, 6000, 7000, 8000, 12000}

\* calculateStallState(aircraft, angleOfAttack, speed, controls) on the test
\* aircraft of a type, with flaps and g-force set
StallState(type, flaps, gForce, angleOfAttack, speed) ==
  /\ fn.op = "none"
  /\ LET ac == [mockAircraft(type) EXCEPT !.flaps = flaps, !.gForce = gForce]
     IN fn' = [op |-> "calculateStallState", aircraft |-> ac,
               angleOfAttack |-> angleOfAttack, speed |-> speed,
               ret |-> calculateStallState(ac, angleOfAttack, speed, mockControls)]
  /\ UNCHANGED <<aircraft, controls, weather, isPaused, simulationTime, errors, frameCount,
                 cache, lastCall, aero, steps>>

NextStall ==
  \E type \in AircraftTypes, flaps \in StallFlaps, gForce \in StallGForces,
     angleOfAttack \in StallAngleChoices, speed \in StallSpeedChoices :
       StallState(type, flaps, gForce, angleOfAttack, speed)

SpecStall == InitFn /\ [][NextStall]_vars

\* --- calculateThrust ---
ThrottleChoices == {0, 100, 250, 499, 500, 501, 750, 900, Milli}
\* altitudes, cm
ThrustAltitudes == {0, 10000, 250000, 500000}
\* airspeeds, 1/1000 km/h
ThrustAirspeeds == {0, 150000, 250000, 1600000, 3000000}

\* calculateThrust(throttle, enginePower, airDensity, altitude, forward,
\* airspeedKmh, aircraftType) with the forward axis of a level aircraft and the
\* air density of the altitude; after a first call, the throttle is swept at
\* the same altitude, airspeed and type
Thrust(throttle, altitude, airspeedKmh, aircraftType) ==
  /\ steps < MaxCalls
  /\ steps' = steps + 1
  /\ IF fn.op = "none" THEN TRUE
     ELSE /\ fn.altitude = altitude
          /\ fn.airspeedKmh = airspeedKmh
          /\ fn.aircraftType = aircraftType
  /\ LET call == calculateThrust(throttle, AIRCRAFT_SPECS[aircraftType].enginePower,
                                 getAirDensity(altitude), altitude, EulerForward(VZero),
                                 airspeedKmh, aircraftType)
     IN fn' = [op |-> "calculateThrust", throttle |-> throttle, altitude |-> altitude,
               airDensity |-> getAirDensity(altitude), airspeedKmh |-> airspeedKmh,
               aircraftType |-> aircraftType, forward |-> EulerForward(VZero),
               forwardAfter |-> call.forward, ret |-> call.ret, prev |-> Previous(fn)]
  /\ UNCHANGED <<aircraft, controls, weather, isPaused, simulationTime, errors, frameCount,
                 cache, lastCall, aero>>

NextThrust ==
  \E throttle \in ThrottleChoices, altitude \in ThrustAltitudes,
     airspeedKmh \in ThrustAirspeeds, aircraftType \in AircraftTypes :
       Thrust(throttle, altitude, airspeedKmh, aircraftType)

SpecThrust == InitFn /\ [][NextThrust]_vars

\* --- calculateThrust, called again with the same forward vector ---
\* the largest force (N) the vector passed on as forward may hold, and the
\* largest thrust of a call that is given it (keeps the arithmetic in range)
ForceCap == 20000

ReuseThrottles == {0, 50, 100, 250}
ReuseAltitudes == {0, 250000}
ReuseAirspeeds == {0, 150000}

\* calculateThrust(..., forward, ...).  fresh: forward is a new
\* Vector3(0, 0, -1) (aerodynamics.test.ts l.147); otherwise it is the vector
\* object of the call before (l.148-149, l.157-158), which holds what that
\* call left in it and is also the object that call returned.
ThrustOn(fresh, throttle, altitude, airspeedKmh, aircraftType) ==
  /\ steps < MaxCalls
  /\ steps' = steps + 1
  /\ IF fresh THEN fn.op = "none"
     ELSE /\ fn.op = "calculateThrust"
          /\ VLength(fn.forwardAfter) <= ForceCap
          /\ ThrustMagnitude(throttle, getAirDensity(altitude), altitude, airspeedKmh,
                             aircraftType) <= ForceCap
  /\ LET forward == IF fresh THEN Vec(0, 0, -Milli) ELSE VScale(fn.forwardAfter, Milli, 1)
         call == calculateThrust(throttle, AIRCRAFT_SPECS[aircraftType].enginePower,
                                 getAirDensity(altitude), altitude, forward,
                                 airspeedKmh, aircraftType)
     IN fn' = [op |-> "calculateThrust", throttle |-> throttle, altitude |-> altitude,
               airDensity |-> getAirDensity(altitude), airspeedKmh |-> airspeedKmh,
               aircraftType |-> aircraftType, forward |-> forward,
               forwardAfter |-> call.forward, ret |-> call.ret,
               prev |-> IF fresh THEN NoCall
                        ELSE [op |-> "calculateThrust", throttle |-> fn.throttle,
                              forward |-> fn.forward, ret |-> fn.ret,
                              retAfter |-> call.forward]]
  /\ UNCHANGED <<aircraft, controls, weather, isPaused, simulationTime, errors, frameCount,
                 cache, lastCall, aero>>

NextThrustOn ==
  \E fresh \in BOOLEAN, throttle \in ReuseThrottles, altitude \in ReuseAltitudes,
     airspeedKmh \in ReuseAirspeeds, aircraftType \in AircraftTypes :
       ThrustOn(fresh, throttle, altitude, airspeedKmh, aircraftType)

SpecThrustOn == InitFn /\ [][NextThrustOn]_vars

\* --- ErrorHandler ---
\* the number of calls made on the error handler
MaxLogged == 105

\* errorHandler.logError(`TEST_${i}`, `Error ${i}`, ErrorSeverity.LOW), the
\* i-th call on the handler (the error handler's test, l.550-553)
LogError ==
  /\ steps < MaxLogged
  /\ steps' = steps + 1
  /\ errors' = logError(errors, "TEST_" \o ToString(steps), "low")
  /\ fn' = [op |-> "logError", before |-> errors,
            error |-> [code |-> "TEST_" \o ToString(steps), severity |-> "low"]]
  /\ UNCHANGED <<aircraft, controls, weather, isPaused, simulationTime, frameCount, cache,
                 lastCall, aero>>

\* errorHandler.clearErrors()
ClearErrors ==
  /\ steps < MaxLogged
  /\ steps' = steps + 1
  /\ errors' = clearErrors(errors)
  /\ fn' = [op |-> "clearErrors", before |-> errors]
  /\ UNCHANGED <<aircraft, controls, weather, isPaused, simulationTime, frameCount, cache,
                 lastCall, aero>>

NextErrors == LogError \/ ClearErrors

SpecErrors == InitFn /\ [][NextErrors]_vars

\* --- checkStall ---
\* airspeeds, 1/1000 km/h
CheckStallAirspeeds ==
  {0, 69000, 70000, 78000, 79000, 85000, 87000, 163000, 174000, 183000, 200000, 204000,
   224000, 250000, 408000, 500000}
CheckStallFlaps == {0, 10, 20, 30, 40}

\* checkStall(aircraft) on the test aircraft of a type (or on null), with
\* airspeed and flaps set; after a first call, the flaps are swept at the same
\* airspeed and type
CheckStall(ac) ==
  /\ steps < MaxCalls
  /\ steps' = steps + 1
  /\ IF fn.op = "none" THEN TRUE
     ELSE IF IsInvalidAircraft(ac) THEN IsInvalidAircraft(fn.aircraft)
     ELSE IF IsInvalidAircraft(fn.aircraft) THEN FALSE
     ELSE fn.aircraft.type = ac.type /\ fn.aircraft.airspeed = ac.airspeed
  /\ fn' = [op |-> "checkStall", aircraft |-> ac, ret |-> checkStall(ac, errors).ret,
            prev |-> Previous(fn)]
  /\ errors' = checkStall(ac, errors).errors
  /\ UNCHANGED <<aircraft, controls, weather, isPaused, simulationTime, frameCount, cache,
                 lastCall, aero>>

NextCheckStall ==
  \/ \E type \in AircraftTypes \cup {"unknown"}, airspeed \in CheckStallAirspeeds,
        flaps \in CheckStallFlaps :
          CheckStall([mockAircraft(type) EXCEPT !.airspeed = airspeed, !.flaps = flaps])
  \/ CheckStall(NullAircraft)

SpecCheckStall == InitFn /\ [][NextCheckStall]_vars

\* --- calculateGroundEffect ---
\* heights above the ground for a type, cm: below the ground, on it, and
\* around the ratios 0.1, 1.0 and 2.0 of its wingspan
GroundHeights(type) ==
  LET w == Wingspan(type)
  IN {-100, 0, w \div 20, w \div 10, w \div 10 + 1, w \div 2, w - 1, w, w + 1,
      (3 * w) \div 2, 2 * w - 1, 2 * w, 2 * w + 1, 10 * w}

\* calculateGroundEffect(aircraft) on the test aircraft of a type at an
\* altitude; after a first call, the altitude is swept for the same type
GroundEffect(type, altitude) ==
  /\ steps < MaxCalls
  /\ steps' = steps + 1
  /\ altitude \in GroundHeights(type)
  /\ IF fn.op = "none" THEN TRUE ELSE fn.aircraft.type = type
  /\ LET ac == [mockAircraft(type) EXCEPT !.altitude = altitude]
     IN fn' = [op |-> "calculateGroundEffect", aircraft |-> ac,
               ret |-> calculateGroundEffect(ac), prev |-> Previous(fn)]
  /\ UNCHANGED <<aircraft, controls, weather, isPaused, simulationTime, errors, frameCount,
                 cache, lastCall, aero>>

NextGround ==
  \E type \in AircraftTypes, altitude \in UNION {GroundHeights(t) : t \in AircraftTypes} :
    GroundEffect(type, altitude)

SpecGround == InitFn /\ [][NextGround]_vars

(***************************************************************************)
(* Properties of the integrator (specification Spec)                       *)
(***************************************************************************)
Stepped == lastCall.op = "updateAircraftPhysics"

\* the aircraft of the last call has a type, and it is not a known one
UnknownType ==
  /\ Stepped
  /\ ~IsInvalidAircraft(lastCall.aircraft)
  /\ lastCall.aircraft.type \notin AircraftTypes

\* the errors the last call has logged
Logged == SubSeq(lastCall.errorsAfter, Len(lastCall.errors) + 1, Len(lastCall.errorsAfter))

\* C1 (as the code behaves): given an aircraft whose type is a non-empty
\* string that is not a known type, updateAircraftPhysics logs one error of
\* high severity, AIRCRAFT_002, and goes on with the type cessna172: it
\* returns the complete update, the very update it returns for the same
\* aircraft with type cessna172.  Only an aircraft that is null or has no
\* type returns no field, with one error PHYSICS_001.
C1_UnknownTypeFallsBack ==
  /\ UnknownType =>
       /\ Logged = << [code |-> "AIRCRAFT_002", severity |-> "high"] >>
       /\ DOMAIN lastCall.ret = UpdateFields
       /\ lastCall.ret = updateAircraftPhysics(
                           [lastCall.aircraft EXCEPT !.type = "cessna172"], lastCall.controls,
                           lastCall.weather, lastCall.deltaTime, << >>).ret
  /\ (Stepped /\ IsInvalidAircraft(lastCall.aircraft)) =>
       /\ Logged = << [code |-> "PHYSICS_001", severity |-> "high"] >>
       /\ lastCall.ret = NoFields

\* C1, witness: a step was taken with an aircraft of type "unknown", and the
\* stored aircraft has moved
C1_Witness ==
  /\ UnknownType
  /\ lastCall.aircraft.type = "unknown"
  /\ aircraft.position # lastCall.aircraft.position

\* C1 as the specification states it: given an aircraft of an unknown type,
\* the integrator reports an error, returns no updated field and leaves the
\* state unchanged.
C1_UnknownTypeNoUpdate ==
  UnknownType =>
    /\ Logged # << >>
    /\ lastCall.ret = NoFields
    /\ aircraft = lastCall.aircraft

\* values that are not an aircraft type
OtherTypes == {"unknown", "", "Cessna172", "cessna"}

\* C16: unknown aircraft types are handled by fallback.  validateAircraftType
\* returns each of the three known types unchanged, logging nothing, and
\* returns cessna172 for any other value, logging exactly one error of high
\* severity, AIRCRAFT_002 (AIRCRAFT_TYPE_UNKNOWN); updateAircraftPhysics on
\* an aircraft of an unknown, non-empty type therefore returns a non-empty
\* update, the one the step computes with the cessna172 specifications.
C16_GracefulFallback ==
  /\ \A t \in AircraftTypes :
       validateAircraftType(t, errors) = [type |-> t, errors |-> errors]
  /\ \A t \in OtherTypes :
       /\ validateAircraftType(t, errors).type = "cessna172"
       /\ validateAircraftType(t, errors).errors
            = errors \o << [code |-> "AIRCRAFT_002", severity |-> "high"] >>
  /\ (Stepped /\ ~IsInvalidAircraft(lastCall.aircraft) /\ ~UnknownType) => Logged = << >>
  /\ UnknownType =>
       /\ Len(Logged) = 1
       /\ Logged[1].code = "AIRCRAFT_002" /\ Logged[1].severity = "high"
       /\ lastCall.ret # NoFields
       /\ lastCall.ret = PhysicsStep(lastCall.aircraft, lastCall.controls, lastCall.weather,
                                     lastCall.deltaTime, "cessna172").ret
       /\ lastCall.ret.fuel
            = Max(0, lastCall.aircraft.fuel
                       - (AIRCRAFT_SPECS["cessna172"].fuelConsumption
                            * lastCall.controls.throttle * lastCall.deltaTime) \div 360000)

\* C16, witness: a step at full throttle with an aircraft of type "unknown"
\* has logged the one error and burnt fuel at the rate of the cessna172
C16_Witness ==
  /\ UnknownType
  /\ lastCall.controls.throttle = Milli
  /\ lastCall.deltaTime = 50
  /\ Len(errors) > 0
  /\ errors[Len(errors)] = [code |-> "AIRCRAFT_002", severity |-> "high"]
  /\ aircraft.type = "unknown"
  /\ aircraft.fuel = lastCall.aircraft.fuel - 4

\* C2: a step is all-or-nothing.  updateAircraftPhysics returns either no
\* field at all -- exactly when the aircraft is null or has no type (with the
\* type fallback, specs are always found) -- and then the merge leaves the
\* stored aircraft as it was, or all fourteen updated fields; never a
\* non-empty strict subset of them.
C2_AllOrNothing ==
  Stepped =>
    /\ DOMAIN lastCall.ret = {} \/ DOMAIN lastCall.ret = UpdateFields
    /\ DOMAIN lastCall.ret = {} <=> IsInvalidAircraft(lastCall.aircraft)
    /\ DOMAIN lastCall.ret = {} => aircraft = lastCall.aircraft
    /\ DOMAIN lastCall.ret = UpdateFields =>
         \A f \in UpdateFields : aircraft[f] = lastCall.ret[f]

\* C2, witness: a second step that returned all the fields, merged into a
\* stored aircraft that it changed
C2_Witness ==
  /\ Stepped
  /\ DOMAIN lastCall.ret = UpdateFields
  /\ aircraft # lastCall.aircraft
  /\ steps = MaxSteps

\* C3: updateAircraftPhysics never mutates its inputs.  After any call the
\* aircraft object (position, velocity, rotation and every scalar field), the
\* control inputs and the weather hold the values they held before the call.
C3_InputsNotMutated ==
  Stepped =>
    /\ lastCall.aircraftAfter = lastCall.aircraft
    /\ lastCall.controlsAfter = lastCall.controls
    /\ lastCall.weatherAfter = lastCall.weather

\* C3, witness: a full step in the wind, whose returned velocity and position
\* differ from the aircraft's and whose relative velocity differs as well
C3_Witness ==
  /\ Stepped
  /\ DOMAIN lastCall.ret = UpdateFields
  /\ lastCall.weather.windSpeed > 0
  /\ lastCall.ret.velocity # lastCall.aircraft.velocity
  /\ lastCall.ret.position # lastCall.aircraft.position
  /\ lastCall.ret.rotation # lastCall.aircraft.rotation

\* the gear height of the aircraft of the last call, cm (2.5 m for cessna172
\* and for a type that falls back to it, 4.0 m f16, 8.0 m boeing737)
GearHeight ==
  IF lastCall.aircraft.type = "boeing737" THEN 800
  ELSE IF lastCall.aircraft.type = "f16" THEN 400 ELSE 250

GearStep ==
  /\ Stepped
  /\ DOMAIN lastCall.ret = UpdateFields
  /\ lastCall.aircraft.landingGear

\* C6: ground clamp.  In every step taken with the aircraft's landing gear
\* deployed the returned position.y is at least the type's gear height; when
\* the projected position is below it, the returned position.y is the gear
\* height and the returned vertical velocity is not negative, and a projected
\* upward velocity is returned as it is.  So the stored aircraft, after a step
\* with the gear deployed, is never below its gear height.
C6_GroundClamp ==
  GearStep =>
    /\ lastCall.ret.position.y >= GearHeight
    /\ aircraft.position.y >= GearHeight
    /\ lastCall.projected.position.y < GearHeight =>
         /\ lastCall.ret.position.y = GearHeight
         /\ lastCall.ret.velocity.y >= 0
         /\ lastCall.ret.verticalSpeed >= 0
    /\ lastCall.projected.velocity.y >= 0 =>
         lastCall.ret.velocity.y = lastCall.projected.velocity.y

\* C6, witness: scenario B -- an aircraft at 0.3 m, gear down, descending, is
\* put on its gear height with its downward speed cancelled
C6_Witness ==
  /\ GearStep
  /\ lastCall.aircraft.altitude = 30
  /\ lastCall.projected.position.y < GearHeight
  /\ lastCall.projected.velocity.y < 0
  /\ lastCall.ret.position.y = GearHeight
  /\ lastCall.ret.velocity.y = 0

\* a clamped step that keeps an upward speed (lift-off from the clamp)
C6_UpwardKept ==
  /\ GearStep
  /\ lastCall.projected.position.y < GearHeight
  /\ lastCall.projected.velocity.y > 0
  /\ lastCall.ret.velocity.y = lastCall.projected.velocity.y

(***************************************************************************)
(* Properties of the classifier in the frame driver (specification         *)
(* SpecFrame)                                                              *)
(***************************************************************************)
\* the classifier has been called (and, in the same frame, the integrator)
Classified == aero.op = "calculateAdvancedAerodynamics"

\* C4: the classifier is a pure function of its arguments.  After
\* calculateAdvancedAerodynamics the aircraft it was given is unchanged -- in
\* particular aircraft.velocity is the vector it was -- and the integrator
\* call that follows it in the same frame is given the velocity the store
\* held when the frame began.
C4_ClassifierPure ==
  Classified =>
    /\ aero.aircraftAfter = aero.aircraft
    /\ lastCall.aircraft.velocity = aero.aircraft.velocity

\* C4, the failing case: the test aircraft flying at 50 m/s leaves the
\* classifier with the unit vector (1 m/s) as its velocity, with every other
\* field as it was, and the integrator of the same frame is given that vector
C4_VelocityNormalized ==
  /\ Classified
  /\ aero.aircraft.velocity = Vec(0, 0, -5000)
  /\ aero.aircraftAfter = [aero.aircraft EXCEPT !.velocity = Vec(0, 0, -100)]
  /\ lastCall.aircraft.velocity = Vec(0, 0, -100)

\* C10: in every state the classifier returns, spinType is none whenever
\* stallState is clean or approaching, spinType flat comes only with
\* stallState deep_stall, and spinRecovery.required holds exactly when
\* spinType is not none.
C10_SpinConsistent ==
  Classified =>
    /\ aero.state.stallState \in {"clean", "approaching"} => aero.state.spinType = "none"
    /\ aero.state.spinType = "flat" => aero.state.stallState = "deep_stall"
    /\ aero.state.spinRecovery.required <=> aero.state.spinType # "none"

\* C10, witness: a classified spin, with a recovery required
C10_Witness ==
  /\ Classified
  /\ aero.state.spinType \in {"incipient", "developed"}
  /\ aero.state.stallState \in {"stalled", "deep_stall"}
  /\ aero.state.spinRecovery.required

\* the other side: a sinking, slipping, rolling aircraft that is not stalled
\* has no spin and needs no recovery
C10_GateWitness ==
  /\ Classified
  /\ aero.state.stallState = "approaching"
  /\ Abs(aero.aircraftAfter.velocity.y) > 50
  /\ Abs(aero.controls.roll) > 300
  /\ Abs(aero.sideslipAngle) > 200
  /\ aero.state.spinType = "none"
  /\ ~aero.state.spinRecovery.required

(***************************************************************************)
(* Properties of the pure functions (SpecStall, SpecThrust, SpecCheckStall)*)
(***************************************************************************)
StallCalled == fn.op = "calculateStallState"

\* the stall class of an angle of attack a (1/100 mrad) and a speed ratio r
\* (1/1000) for the angles critical and deep, by the rule of the specification
StallClass(a, r, critical, deep) ==
  IF a > deep \/ (r < 700 /\ a * 10 > critical * 8) THEN "deep_stall"
  ELSE IF a > critical \/ r < 800 THEN "stalled"
  ELSE IF a * 10 > critical * 8 \/ r < 1100 THEN "approaching"
  ELSE "clean"

\* C5: stall classification keeps the priority deep_stall > stalled >
\* approaching > clean.  With r = speed / stall speed as calculateStallState
\* takes it: the result is deep_stall exactly when alpha > deepStallAoA or
\* (r < 0.7 and alpha > 0.8 criticalAoA), whatever else holds; stalled exactly
\* when that is false and (alpha > criticalAoA or r < 0.8); approaching exactly
\* when both are false and (alpha > 0.8 criticalAoA or r < 1.1); clean
\* otherwise; and no other value, in particular never spin.
C5_StallPriority ==
  StallCalled =>
    LET a == fn.angleOfAttack * 100
        r == speedStallFactor(fn.aircraft, fn.speed)
        critical == StallAngles(fn.aircraft)[1]
        deep == StallAngles(fn.aircraft)[2]
        isDeep == a > deep \/ (r < 700 /\ a * 10 > critical * 8)
        isStalled == a > critical \/ r < 800
        isApproaching == a * 10 > critical * 8 \/ r < 1100
    IN /\ fn.ret \in {"deep_stall", "stalled", "approaching", "clean"}
       /\ fn.ret # "spin"
       /\ fn.ret = "deep_stall" <=> isDeep
       /\ fn.ret = "stalled" <=> (~isDeep /\ isStalled)
       /\ fn.ret = "approaching" <=> (~isDeep /\ ~isStalled /\ isApproaching)
       /\ fn.ret = "clean" <=> (~isDeep /\ ~isStalled /\ ~isApproaching)

\* C5, witness: a deep stall by the speed criterion below the critical angle,
\* where the conditions of stalled (r < 0.8) and approaching hold as well
C5_Witness ==
  /\ StallCalled
  /\ fn.ret = "deep_stall"
  /\ fn.angleOfAttack * 100 <= StallAngles(fn.aircraft)[1]
  /\ fn.angleOfAttack * 1000 > StallAngles(fn.aircraft)[1] * 8
  /\ speedStallFactor(fn.aircraft, fn.speed) < 700

\* the speed ratio of the specification: speed over the adjusted stall speed
\* (reduced by the flaps, times sqrt|gForce|), 1/1000; speed cm/s
AdjustedSpeedRatio(ac, speed) ==
  (speed * 10 * Milli) \div effectiveStallSpeed(ac)

\* C9: the speed ratio that the stall classifier compares with 0.7, 0.8 and
\* 1.1 is the speed over the adjusted stall speed (the type's stall speed
\* reduced by the flaps and multiplied by sqrt|g-force|): the class returned
\* is the class of the angle of attack and that ratio.
C9_AdjustedRatioUsed ==
  StallCalled =>
    fn.ret = StallClass(fn.angleOfAttack * 100, AdjustedSpeedRatio(fn.aircraft, fn.speed),
                        StallAngles(fn.aircraft)[1], StallAngles(fn.aircraft)[2])

\* C9, the failing case: cessna172, flaps 40, 1 g, 20 m/s level.  The adjusted
\* stall speed is 16.9 m/s and the ratio 1.18 (clean); the classifier divides
\* by 24.2 m/s, gets 0.83 and returns approaching.
C9_FlapsIgnored ==
  /\ StallCalled
  /\ fn.aircraft.type = "cessna172" /\ fn.aircraft.flaps = 40 /\ fn.aircraft.gForce = Milli
  /\ fn.speed = 2000 /\ fn.angleOfAttack = 0
  /\ AdjustedSpeedRatio(fn.aircraft, fn.speed) >= 1100
  /\ speedStallFactor(fn.aircraft, fn.speed) < 1100
  /\ fn.ret = "approaching"

ThrustCalled == fn.op = "calculateThrust"

\* the magnitude of a thrust returned along the forward axis (0, 0, -1), N
ThrustOf(call) == -call.ret.z

\* C7: at a fixed altitude, air density and airspeed, for each of the three
\* types, the thrust magnitude of calculateThrust does not decrease when the
\* throttle goes up within [0,1]; for the f16 this holds across the
\* afterburner threshold and where the Mach taper applies.
C7_ThrustMonotone ==
  (/\ ThrustCalled
   /\ fn.prev.op = "calculateThrust"
   /\ fn.prev.altitude = fn.altitude
   /\ fn.prev.airDensity = fn.airDensity
   /\ fn.prev.airspeedKmh = fn.airspeedKmh
   /\ fn.prev.aircraftType = fn.aircraftType
   /\ fn.prev.throttle <= fn.throttle)
    => ThrustOf(fn.prev) <= ThrustOf(fn)

\* C7, witness: the f16 above Mach 1.2 at altitude, the throttle moved from
\* the afterburner threshold to just above it, the thrust higher
C7_Witness ==
  /\ ThrustCalled
  /\ fn.prev.op = "calculateThrust"
  /\ fn.aircraftType = "f16" /\ fn.airspeedKmh = 3000000 /\ fn.altitude = 500000
  /\ fn.prev.throttle = 500 /\ fn.throttle = 501
  /\ 0 < ThrustOf(fn.prev) /\ ThrustOf(fn.prev) < ThrustOf(fn)

CheckStallCalled ==
  /\ fn.op = "checkStall"
  /\ ~IsInvalidAircraft(fn.aircraft)
  /\ fn.aircraft.type \in AircraftTypes

\* the same airspeed and type checked before, at another flap angle
CheckStallSwept ==
  /\ CheckStallCalled
  /\ fn.prev.op = "checkStall"
  /\ fn.prev.aircraft.type = fn.aircraft.type
  /\ fn.prev.aircraft.airspeed = fn.aircraft.airspeed

\* C8: checkStall returns true exactly when the airspeed is below
\* stallSpeed * (1 - 0.2 * flaps / 40) of the type; so it is false at twice
\* the stall speed, and at the same airspeed stalled at a flap angle implies
\* stalled at every smaller one.
C8_CheckStall ==
  /\ CheckStallCalled =>
       /\ fn.ret <=> (fn.aircraft.airspeed * 40
                        < AIRCRAFT_SPECS[fn.aircraft.type].stallSpeed * Milli
                            * (40 - fn.aircraft.flaps \div 5))
       /\ fn.aircraft.airspeed = 2 * AIRCRAFT_SPECS[fn.aircraft.type].stallSpeed * Milli
            => ~fn.ret
  /\ (CheckStallSwept /\ fn.aircraft.flaps <= fn.prev.aircraft.flaps /\ fn.prev.ret) => fn.ret

\* C8, witness: cessna172 at 85 km/h, stalled with flaps 0 in the call before,
\* not stalled with flaps 20
C8_Witness ==
  /\ CheckStallSwept
  /\ fn.aircraft.type = "cessna172" /\ fn.aircraft.airspeed = 85000
  /\ fn.prev.aircraft.flaps = 0 /\ fn.prev.ret
  /\ fn.aircraft.flaps = 20 /\ ~fn.ret

\* the classifier was given a deep-stall case that has every one of the spin
\* conditions on the aircraft it was passed: roll input over 0.3, sideslip
\* over 0.2 rad
SpinConditions ==
  /\ Classified
  /\ aero.state.stallState = "deep_stall"
  /\ Abs(aero.controls.roll) > 300
  /\ Abs(aero.sideslipAngle) > 200

\* C11: through calculateAdvancedAerodynamics an aircraft in deep_stall with
\* roll input over 0.3, sideslip over 0.2 rad and a vertical velocity
\* component over 1.0 m/s in magnitude is classified flat; with one over 0.8
\* m/s and not over 1.0 m/s it is developed, and incipient otherwise.
C11_FlatReachable ==
  SpinConditions =>
    aero.state.spinType =
      IF Abs(aero.aircraft.velocity.y) > 100 THEN "flat"
      ELSE IF Abs(aero.aircraft.velocity.y) > 80 THEN "developed"
      ELSE "incipient"

\* C11, the failing case: sinking at 7 m/s in a deep stall, rolling and
\* slipping, the aircraft is classified by the vertical component of the
\* unit vector that calculateAngleOfAttack left in aircraft.velocity, which
\* is 0.8 at most here and never over 1.0
C11_FlatMissed ==
  /\ SpinConditions
  /\ aero.aircraft.velocity.y = -700
  /\ Abs(aero.aircraftAfter.velocity.y) <= 80
  /\ aero.state.spinType = "incipient"

\* what the code does in every classification: flat is never returned
C11_NeverFlat ==
  Classified => /\ Abs(aero.aircraftAfter.velocity.y) <= 100
                /\ aero.state.spinType # "flat"

(***************************************************************************)
(* Properties of the ground effect (specification SpecGround)              *)
(***************************************************************************)
GroundCalled == fn.op = "calculateGroundEffect"

\* C12: for every aircraft type and every non-negative altitude the ground
\* effect lies in [0,1]; it is 1.0 exactly when the height is at most 0.1 of
\* the wingspan (2 * sqrt(wingArea)), and it is 0 whenever the height is at
\* least 2.0 wingspans.
C12_GroundEffectRange ==
  (GroundCalled /\ fn.aircraft.altitude >= 0) =>
    /\ 0 <= fn.ret /\ fn.ret <= Milli
    /\ fn.ret = Milli <=> fn.aircraft.altitude * 10 <= Wingspan(fn.aircraft.type)
    /\ fn.aircraft.altitude >= 2 * Wingspan(fn.aircraft.type) => fn.ret = 0

\* C12, witness: a call at exactly two wingspans, which takes the last
\* branch of the function and gives 0, after one at 0.1 wingspan giving 1.0
C12_Witness ==
  /\ GroundCalled
  /\ fn.aircraft.altitude = 2 * Wingspan(fn.aircraft.type)
  /\ fn.ret = 0
  /\ fn.prev.op = "calculateGroundEffect"
  /\ fn.prev.aircraft.altitude = Wingspan(fn.aircraft.type) \div 10
  /\ fn.prev.ret = Milli

\* C13: the ground effect decays with height: for two heights h1 <= h2 of
\* the same aircraft type the effect at h1 is at least the effect at h2; in
\* particular it does not rise again between 1.0 and 2.0 wingspans.
C13_GroundEffectDecays ==
  (/\ GroundCalled
   /\ fn.prev.op = "calculateGroundEffect"
   /\ fn.prev.aircraft.type = fn.aircraft.type
   /\ 0 <= fn.prev.aircraft.altitude
   /\ fn.prev.aircraft.altitude <= fn.aircraft.altitude)
    => fn.prev.ret >= fn.ret

\* C13, the failing case: at exactly one wingspan the effect is 0, one
\* centimetre higher it is 0.5 (less the rounding)
C13_RisesAfterOneSpan ==
  /\ GroundCalled
  /\ fn.prev.op = "calculateGroundEffect"
  /\ fn.prev.aircraft.type = fn.aircraft.type
  /\ fn.prev.aircraft.altitude = Wingspan(fn.aircraft.type)
  /\ fn.aircraft.altitude = Wingspan(fn.aircraft.type) + 1
  /\ fn.prev.ret = 0
  /\ fn.ret >= 499

(***************************************************************************)
(* Properties of the engine and the tank (specification SpecEngine)        *)
(***************************************************************************)
\* a step that returned an update, for an aircraft of a known type
EngineStep == Stepped /\ lastCall.aircraft.type \in AircraftTypes /\ lastCall.ret # NoFields

\* (fuelConsumption / 3600) * throttle * dt, in 1/10000 litre
FuelUsed(call) ==
  (AIRCRAFT_SPECS[call.aircraft.type].fuelConsumption * call.controls.throttle
     * call.deltaTime) \div 360000

\* C14: over any sequence of integrator steps with throttle in [0,1] and
\* dt >= 0 the fuel is never negative and never increases; each step lowers
\* it by exactly (fuelConsumption / 3600) * throttle * dt, or to 0 when that
\* exceeds the remaining fuel, and once the fuel is 0 it stays 0.
C14_FuelBurn ==
  /\ ~IsInvalidAircraft(aircraft) => aircraft.fuel >= 0
  /\ EngineStep =>
       /\ lastCall.ret.fuel >= 0
       /\ lastCall.ret.fuel <= lastCall.aircraft.fuel
       /\ lastCall.ret.fuel =
            IF FuelUsed(lastCall) > lastCall.aircraft.fuel THEN 0
            ELSE lastCall.aircraft.fuel - FuelUsed(lastCall)
       /\ lastCall.aircraft.fuel = 0 => lastCall.ret.fuel = 0
       /\ aircraft.fuel = lastCall.ret.fuel

\* C14, witness: a second step at full throttle on a tank the first step
\* has emptied, which leaves it empty
C14_Witness ==
  /\ EngineStep
  /\ steps = 2
  /\ lastCall.controls.throttle = Milli
  /\ FuelUsed(lastCall) > 0
  /\ lastCall.aircraft.fuel = 0
  /\ aircraft.fuel = 0

\* a step that burns part of the fuel there is
C14_BurnWitness ==
  /\ EngineStep
  /\ FuelUsed(lastCall) > 0
  /\ 0 < aircraft.fuel
  /\ aircraft.fuel = lastCall.aircraft.fuel - FuelUsed(lastCall)


\* targetRPM of a step (l.375-378): throttle * 100 for the boeing737,
\* throttle * 2700 otherwise; 1/1000 rpm
TargetRPM(call) ==
  IF call.aircraft.type = "boeing737" THEN call.controls.throttle * 100
  ELSE call.controls.throttle * 2700

\* C15: engine RPM follows its target with a first-order lag: in a step
\* with 0 < dt <= 1/20 s the distance |target - rpm| does not increase, rpm
\* does not cross to the other side of the target, and an rpm that starts
\* within [0, maximum target] stays within it; the target is throttle * 100
\* for the boeing737 and throttle * 2700 otherwise.
C15_RpmLag ==
  (EngineStep /\ 0 < lastCall.deltaTime /\ lastCall.deltaTime <= 50) =>
    LET target == TargetRPM(lastCall)
        before == lastCall.aircraft.engineRPM
        after == lastCall.ret.engineRPM
    IN /\ Abs(target - after) <= Abs(target - before)
       /\ before <= target => after <= target
       /\ before >= target => after >= target
       /\ (0 <= before /\ before <= MaxTargetRPM(lastCall.aircraft.type)) =>
            (0 <= after /\ after <= MaxTargetRPM(lastCall.aircraft.type))
       /\ aircraft.engineRPM = after

\* C15, witness: two steps at the same throttle with the longest step, the
\* engine spooling up from a stop and each time closer to its target, which
\* it has not reached
C15_Witness ==
  /\ EngineStep
  /\ steps = 2
  /\ lastCall.deltaTime = 50
  /\ lastCall.controls.throttle = Milli
  /\ 0 < lastCall.aircraft.engineRPM
  /\ lastCall.aircraft.engineRPM < aircraft.engineRPM
  /\ aircraft.engineRPM < TargetRPM(lastCall)
  /\ aircraft.engineRPM - lastCall.aircraft.engineRPM
       = MulDiv(TargetRPM(lastCall) - lastCall.aircraft.engineRPM, 150, Milli)

\* the engine spooling down towards a lower target without passing it
C15_DownWitness ==
  /\ EngineStep
  /\ lastCall.aircraft.engineRPM = MaxTargetRPM(lastCall.aircraft.type)
  /\ TargetRPM(lastCall) < aircraft.engineRPM
  /\ aircraft.engineRPM < lastCall.aircraft.engineRPM

(***************************************************************************)
(* Properties of the ground contact (specification SpecContact)            *)
(***************************************************************************)
\* a full step taken with the aircraft below the minimum height of 0.5 m
ContactStep ==
  /\ Stepped
  /\ DOMAIN lastCall.ret = UpdateFields
  /\ lastCall.aircraft.position.y < 50

\* C17: ground contact keeps the aircraft at or above the minimum height:
\* whenever updateAircraftPhysics is applied to an aircraft whose position.y
\* is below 0.5 m, the returned position.y is at least 0.5 m, whether or not
\* the landing gear is deployed.
C17_AboveMinimum ==
  ContactStep => lastCall.ret.position.y >= 50

\* C17, the failing case: the test's groundAircraft (0.3 m, gear retracted)
\* stepped 16 ms with the test's controls comes back with position.y still
\* under 0.5 m; only the altitude field is raised to 0.5 m
C17_BelowMinimum ==
  /\ ContactStep
  /\ lastCall.aircraft = groundAircraft("cessna172")
  /\ lastCall.controls = mockControls
  /\ lastCall.deltaTime = 16
  /\ lastCall.ret.position.y < 50
  /\ lastCall.ret.altitude = 50

\* what the code does keep: with the gear deployed the returned position.y
\* is the gear height, and the altitude field is never under 0.5 m
C17_GearDownAbove ==
  ContactStep =>
    /\ lastCall.ret.altitude >= 50
    /\ lastCall.aircraft.landingGear => lastCall.ret.position.y = GearHeight

(***************************************************************************)
(* Properties of calculateThrust called with one forward vector            *)
(* (specification SpecThrustOn)                                            *)
(***************************************************************************)
\* the thrust magnitude of the last call's own throttle, altitude, airspeed
\* and type, N
OwnThrust ==
  ThrustMagnitude(fn.throttle, fn.airDensity, fn.altitude, fn.airspeedKmh, fn.aircraftType)

\* C18: calculateThrust is a pure function: it returns the vector of the
\* computed thrust magnitude along the forward axis and leaves the caller's
\* forward vector as it was, so a second call with the same forward vector
\* object gives a result that depends only on its own throttle, altitude,
\* airspeed and type, and does not alter the first call's result.
C18_ThrustPure ==
  fn.op = "calculateThrust" =>
    /\ fn.forwardAfter = fn.forward
    /\ fn.ret = Vec(0, 0, -OwnThrust)
    /\ fn.prev.op = "calculateThrust" => fn.prev.retAfter = fn.prev.ret

\* C18, the failing case: the first call, at idle, has turned the caller's
\* forward vector (0, 0, -1) into the zero vector; the second call with that
\* vector, at throttle 0.1, has a thrust magnitude of its own to return and
\* returns the zero vector
C18_ForwardScaled ==
  /\ fn.op = "calculateThrust"
  /\ fn.prev.op = "calculateThrust"
  /\ fn.prev.throttle = 0
  /\ fn.prev.forward = Vec(0, 0, -Milli)
  /\ fn.forward = VZero
  /\ fn.throttle = 100
  /\ OwnThrust > 0
  /\ fn.ret = VZero

\* and, after two calls with thrust, the first call's result is no longer
\* what it returned: it is the second call's result, the product of the two
C18_FirstResultAltered ==
  /\ fn.op = "calculateThrust"
  /\ fn.prev.op = "calculateThrust"
  /\ fn.prev.ret.z < 0
  /\ OwnThrust > 1
  /\ fn.prev.retAfter = fn.ret
  /\ fn.ret.z = fn.prev.ret.z * OwnThrust

(***************************************************************************)
(* Properties of the error log (specification SpecErrors)                  *)
(***************************************************************************)
\* the last n elements of a sequence
LastOf(seq, n) == SubSeq(seq, Len(seq) - n + 1, Len(seq))

\* C19: the error log is bounded and evicts oldest-first.  After any
\* sequence of logError and clearErrors calls at most 100 errors are stored;
\* after logError the stored errors are the most recent ones in logging
\* order -- what was stored before followed by the error just logged, less
\* the oldest one if that makes more than 100 -- so the last logged error
\* is the last stored one; and clearErrors leaves the log empty.
C19_BoundedLog ==
  /\ Len(errors) <= maxErrors
  /\ getRecentErrors(errors, 200) = errors
  /\ fn.op = "logError" =>
       /\ Len(errors) = Min(maxErrors, Len(fn.before) + 1)
       /\ errors = LastOf(fn.before \o << fn.error >>, Len(errors))
       /\ errors[Len(errors)] = fn.error
  /\ fn.op = "clearErrors" => errors = << >>

\* C19, witness: 105 errors logged in a row, TEST_0 to TEST_104: 100 are
\* stored, the oldest of them TEST_5, the last one TEST_104
C19_Witness ==
  /\ fn.op = "logError"
  /\ steps = 105
  /\ Len(fn.before) = maxErrors
  /\ Len(errors) = maxErrors
  /\ errors[1].code = "TEST_5"
  /\ errors[maxErrors].code = "TEST_104"

\* a log cleared while full
C19_ClearWitness ==
  /\ fn.op = "clearErrors"
  /\ Len(fn.before) = maxErrors
  /\ errors = << >>

(***************************************************************************)
(* Properties of the ground reaction (specification Spec)                  *)
(***************************************************************************)
\* a full step taken with an aircraft of a known type that stands or rolls
\* where the ground clamp holds it: on its gear height, gear deployed, not
\* climbing
HeldOnGear ==
  /\ GearStep
  /\ lastCall.aircraft.type \in AircraftTypes
  /\ lastCall.aircraft.position.y = GearHeight
  /\ lastCall.aircraft.altitude = GearHeight
  /\ lastCall.aircraft.velocity.y = 0

\* lift + drag + thrust + gravity of the last step, N
AirForceOf(call) ==
  AirForce(call.aircraft, call.controls, call.aircraft.type,
           VSub(call.aircraft.velocity, WindVector(call.weather)),
           AngleOfAttack(VSub(call.aircraft.velocity, WindVector(call.weather)),
                         call.aircraft.rotation),
           getAirDensity(call.aircraft.altitude))

\* what the last step added to that as the ground reaction, N
GroundForceOf(call) ==
  VSub(WithGroundForces(call.aircraft, call.controls, AirForceOf(call)), AirForceOf(call))

\* the horizontal velocity the last step began with
HorizontalVelocityOf(call) == Vec(call.aircraft.velocity.x, 0, call.aircraft.velocity.z)

\* friction coefficient times normal force (weight * g, to the newton), N
FrictionOf(call) ==
  MulDiv((GRAVITY * AIRCRAFT_SPECS[call.aircraft.type].weight + 50) \div 100,
         IF call.controls.brakes THEN 1500 ELSE 2, 10000)

\* C20: ground reaction acts while the aircraft is on the ground.  For an
\* aircraft that the integrator's ground clamp holds at its gear height with
\* the landing gear deployed, the net force of the next step includes the
\* ground reaction: a net downward force is cancelled, and when the aircraft
\* is rolling a friction of 0.15 times the normal force with the brakes
\* applied (0.0002 times without) opposes its horizontal velocity.
C20_GroundReactionActs ==
  HeldOnGear =>
    /\ AirForceOf(lastCall).y < 0 =>
         /\ GroundForceOf(lastCall).y = -AirForceOf(lastCall).y
         /\ lastCall.projected.velocity.y >= 0
    /\ VLength(HorizontalVelocityOf(lastCall)) > 1 =>
         [GroundForceOf(lastCall) EXCEPT !.y = 0]
           = VScale(VNormalize(HorizontalVelocityOf(lastCall), Milli),
                    -FrictionOf(lastCall), Milli)

\* C20, the failing case: the airliner, put on its gear height by the clamp
\* in the step before, rolls at 30 m/s with the brakes applied and the
\* throttle closed; the step adds no ground reaction at all, since the gear
\* height (8 m) is above the 1.0 m under which calculateGroundForces acts:
\* the net force is downward and the projected velocity points into the
\* ground
C20_NoReaction ==
  /\ HeldOnGear
  /\ steps = 2
  /\ lastCall.aircraft.type = "boeing737"
  /\ lastCall.controls.brakes
  /\ lastCall.controls.throttle = 0
  /\ VLength(HorizontalVelocityOf(lastCall)) > 2900
  /\ AirForceOf(lastCall).y < 0
  /\ GroundForceOf(lastCall) = VZero
  /\ lastCall.projected.velocity.y < 0

\* what the code does: the ground reaction never acts on an aircraft at its
\* gear height
C20_NeverOnGear ==
  HeldOnGear => GroundForceOf(lastCall) = VZero


\* C21: on the ground only yaw responds.  For an aircraft standing or
\* rolling at the height the ground clamp or a scenario reset puts it, with
\* the landing gear deployed, a step changes the rotation only about the
\* yaw axis, by the nosewheel rate (30 deg/s at full deflection) scaled by
\* the ground-speed ratio; pitch and roll inputs leave pitch and roll as
\* they were.
C21_OnlyYawOnGround ==
  HeldOnGear =>
    /\ lastCall.ret.rotation.x = lastCall.aircraft.rotation.x
    /\ lastCall.ret.rotation.z = lastCall.aircraft.rotation.z
    /\ lastCall.ret.rotation.y - lastCall.aircraft.rotation.y
         = MulDiv(Rate(lastCall.controls.yaw, 30,
                       Min(Milli, lastCall.aircraft.airspeed
                                    \div (IF lastCall.aircraft.type = "boeing737" THEN 50
                                          ELSE 30))),
                  lastCall.deltaTime, Milli * Milli)

\* C21, the failing case: the parked default aircraft (scenario reset, on
\* its gear height, gear deployed, at rest), given half pitch and 0.4 roll
\* for 50 ms, comes back pitched and rolled: its altitude (the gear height,
\* 2.5 m or more) is not under the 1.0 m below which the step takes the
\* aircraft to be on the ground
C21_PitchRollOnGround ==
  /\ HeldOnGear
  /\ lastCall.aircraft = createDefaultAircraft(lastCall.aircraft.type)
  /\ lastCall.controls.pitch = 500
  /\ lastCall.controls.roll = -400
  /\ lastCall.deltaTime = 50
  /\ lastCall.ret.rotation.x > lastCall.aircraft.rotation.x
  /\ lastCall.ret.rotation.z < lastCall.aircraft.rotation.z


(***************************************************************************)
(* Properties of the returned telemetry (specification Spec)               *)
(***************************************************************************)
\* a step that returned the full update
FullStep == Stepped /\ DOMAIN lastCall.ret = UpdateFields

\* C22: the telemetry returned by a step is consistent with the kinematic
\* state returned by the same step: airspeed is 3.6 times the magnitude of
\* (returned velocity - wind vector), verticalSpeed is the returned
\* velocity's y component, and altitude is max(0.5, returned position.y).
C22_TelemetryConsistent ==
  FullStep =>
    /\ lastCall.ret.airspeed
         = VLength(VSub(lastCall.ret.velocity, WindVector(lastCall.weather))) * 36
    /\ lastCall.ret.verticalSpeed = lastCall.ret.velocity.y
    /\ lastCall.ret.altitude = Max(50, lastCall.ret.position.y)

\* C22, the failing case: the parked airliner at full throttle with the
\* brakes released has gained speed in the step, and the airspeed it returns
\* is still 0: the airspeed is taken from the velocity the step began with
C22_AirspeedLags ==
  /\ FullStep
  /\ lastCall.aircraft = createDefaultAircraft("boeing737")
  /\ lastCall.weather = defaultWeather
  /\ lastCall.controls.throttle = Milli
  /\ VLength(lastCall.ret.velocity) > 100
  /\ lastCall.ret.airspeed = 0

\* what the code keeps: airspeed from the velocity before the step, and the
\* other two fields from the state after it
C22_AirspeedOfOldVelocity ==
  FullStep =>
    /\ lastCall.ret.airspeed
         = VLength(VSub(lastCall.aircraft.velocity, WindVector(lastCall.weather))) * 36
    /\ lastCall.ret.verticalSpeed = lastCall.ret.velocity.y
    /\ lastCall.ret.altitude = Max(50, lastCall.ret.position.y)


(***************************************************************************)
(* More properties of the classifier in the frame driver (SpecFrame)       *)
(***************************************************************************)
\* C23: zero velocity maps to minimum-magnitude outputs in the classifier:
\* for an aircraft with zero velocity the angle of attack and the sideslip
\* used for the classification are 0, so a stationary aircraft is never
\* classified deep_stall on account of its angle of attack, and
\* groundEffect, compressibilityFactor, turbulenceLevel, stallState and
\* spinType are all defined values.
C23_ZeroVelocityBenign ==
  (Classified /\ aero.aircraft.velocity = VZero) =>
    /\ aero.angleOfAttack = 0
    /\ aero.sideslipAngle = 0
    /\ aero.state.stallState \in {"clean", "approaching", "stalled"}
    /\ aero.state.spinType \in {"none", "incipient", "developed", "flat"}
    /\ aero.state.groundEffect \in 0..Milli
    /\ aero.state.compressibilityFactor >= Milli
    /\ aero.state.turbulenceLevel \in 0..Milli

\* C23, the failing case: the parked default aircraft is given the angle of
\* attack acos(0) = pi/2 (the normalized zero vector is the zero vector, its
\* dot product with the forward axis is 0) and is classified deep_stall
C23_ParkedDeepStall ==
  /\ Classified
  /\ aero.aircraft = createDefaultAircraft("cessna172")
  /\ aero.aircraft.velocity = VZero
  /\ aero.angleOfAttack = HalfPI
  /\ aero.sideslipAngle = 0
  /\ aero.state.stallState = "deep_stall"

\* ---------------------------------------------------------------------------
\* The frame driver over a session of any number of frames
\* ---------------------------------------------------------------------------

\* frames in which physics runs; the frames that skip it are not counted
MaxRuns == 1

\* frameCount.current is read through % 2, % 3 and % 30 only (l.409, 438, 445):
\* the frames are numbered modulo 30
FrameCycle == 30

\* average frame rates of the three tiers the comments of l.436-450 name
SessionRates == {60, 40, 25}

\* the throttle command the held key is followed up to, thousandths
ThrottleCap == 10

\* the timers of the ground check and of the stall check: below 100 m and
\* below 150 km/h both checks are made in every frame (l.503, l.533), so for a
\* standing aircraft the timers decide nothing
SessionDue == [ground |-> TRUE, stall |-> TRUE]

\* l.396-468: whether physics runs in the frame numbered count
PhysicsRuns(avgFps, count) ==
  /\ ~isPaused
  /\ ~IsInvalidAircraft(aircraft)
  /\ FrameRuns(avgFps, count)
  /\ (hasSignificantChange(aircraft, controls, cache) \/ avgFps <= 50)

\* l.470-597: the first frame of a parked aircraft at 60 frames a second, which
\* runs physics because the cache is empty
FirstFrame(type, due) ==
  FrameWithControls(createDefaultAircraft(type), defaultControls,
                    effectiveControls(createDefaultAircraft(type), defaultControls, << >>),
                    defaultWeather, 1000 \div 60, due, NoCache, 0)

\* The simulator with a parked aircraft and the store's defaults, before its
\* first frame or after it; steps counts the physics runs from there.
InitSession ==
  /\ weather = defaultWeather
  /\ controls = defaultControls
  /\ isPaused = FALSE
  /\ fn = NoCall
  /\ steps = 0
  /\ \/ /\ aircraft \in { createDefaultAircraft(t) : t \in AircraftTypes }
        /\ simulationTime = 0
        /\ errors = << >>
        /\ frameCount = 0
        /\ cache = NoCache
        /\ lastCall = NoCall
        /\ aero = NoCall
     \/ \E type \in AircraftTypes :
          LET out == FirstFrame(type, SessionDue)
          IN /\ aircraft = out.aircraft
             /\ simulationTime = out.simulationTime
             /\ errors = out.errors
             /\ frameCount = 1
             /\ cache = out.cache
             /\ lastCall = out.lastCall
             /\ aero = out.aero

\* useFrame callback (l.392-597) with the weather system's weather unchanged;
\* fn records the call performanceMonitor.getAverageFPS() of l.433
useFrame(delta, avgFps, due) ==
  /\ fn' = IF isPaused \/ IsInvalidAircraft(aircraft) THEN fn
           ELSE [op |-> "getAverageFPS", ret |-> avgFps]
  /\ IF PhysicsRuns(avgFps, (frameCount + 1) % FrameCycle)
     THEN steps < MaxRuns /\ steps' = steps + 1
     ELSE steps' = steps
  /\ FrameStep(delta, avgFps, weather, due, (frameCount + 1) % FrameCycle)

\* handleKeyDown with the pause key: setPaused(!isPaused)
handleKeyDown ==
  /\ isPaused' = ~isPaused
  /\ UNCHANGED <<aircraft, controls, weather, simulationTime, errors, frameCount, cache,
                 lastCall, aero, fn, steps>>

\* updateControls with a throttle key held: setControls(newControls)
updateControls(up) ==
  /\ LET throttle == IF up THEN Min(1000, controls.throttle + 10)
                     ELSE Max(0, controls.throttle - 10)
     IN /\ throttle <= ThrottleCap
        /\ controls' = [controls EXCEPT !.throttle = throttle]
  /\ UNCHANGED <<aircraft, weather, isPaused, simulationTime, errors, frameCount, cache,
                 lastCall, aero, fn, steps>>

NextFrames ==
  \E delta \in FrameDeltas, avgFps \in SessionRates : useFrame(delta, avgFps, SessionDue)

NextSession ==
  \/ NextFrames
  \/ handleKeyDown
  \/ \E up \in BOOLEAN : updateControls(up)

\* What a frame of the running simulation does to the frame number and to the
\* count of physics runs: the steps of NextFrames, and no others, are such steps.
Rendered ==
  /\ ~isPaused
  /\ InRange(aircraft)
  /\ frameCount' = (frameCount + 1) % FrameCycle
  /\ \E avgFps \in SessionRates :
       IF PhysicsRuns(avgFps, (frameCount + 1) % FrameCycle)
       THEN steps < MaxRuns /\ steps' = steps + 1
       ELSE steps' = steps

\* The renderer calls the frame callback again and again: a frame is not put
\* off forever.
SpecSession == InitSession /\ [][NextSession]_vars /\ WF_<<frameCount, steps>>(Rendered)

\* the throttle command of a standing aircraft differs from the throttle the
\* aircraft flies with
ThrottlePending ==
  /\ ~isPaused
  /\ ~IsInvalidAircraft(aircraft)
  /\ aircraft.airspeed <= 10000
  /\ controls.throttle # aircraft.throttle

\* C24: whenever the simulation is not paused and the aircraft stands still
\* (airspeed <= 10), a changed throttle command is eventually taken by a frame
\* that runs physics with it (while the model still has a physics run left).
C24_ThrottleReachesPhysics ==
  ThrottlePending ~> (~ThrottlePending \/ steps = MaxRuns)

\* a frame has skipped physics by change detection while the command waits
C24_CommandIgnored ==
  /\ ThrottlePending
  /\ cache.canSkipUpdate
  /\ steps < MaxRuns
  /\ controls.throttle = 10 /\ aircraft.throttle = 0

\* C25: physics runs in three tiers: at an average FPS of 45 or more in every
\* frame with a dt ceiling of 1/60 s, below 45 in every second frame with a
\* ceiling of 1/30 s, below 30 only in every third frame with a ceiling of 1/20 s.
C25_ThreeTiers ==
  [][steps' = steps + 1 =>
       LET avgFps == fn'.ret
           ceiling == IF avgFps < 30 THEN 1000 \div 20
                      ELSE IF avgFps < 45 THEN 1000 \div 30
                      ELSE 1000 \div 60
       IN /\ lastCall'.deltaTime \in { Min(delta, ceiling) : delta \in FrameDeltas }
          /\ avgFps < 30 => frameCount' % 3 = 0
          /\ (avgFps >= 30 /\ avgFps < 45) => frameCount' % 2 = 0]_vars

\* at an average FPS of 25 physics has run in the second frame, with 1/30 s
C25_SecondFrameAtLowRate ==
  /\ fn.op = "getAverageFPS"
  /\ fn.ret = 25
  /\ frameCount = 2
  /\ steps = 1
  /\ lastCall.op = "updateAircraftPhysics"
  /\ lastCall.deltaTime = 1000 \div 30
  /\ simulationTime = 1000 \div 30

\* C26: whatever delta the renderer reports, the dt passed to
\* updateAircraftPhysics is at most 1/20 s; a frame in which physics runs
\* advances the simulation time by exactly that dt, any other frame by nothing.
C26_ClampedTimestep ==
  [][IF steps' = steps + 1
     THEN /\ lastCall'.op = "updateAircraftPhysics"
          /\ lastCall'.deltaTime <= 1000 \div 20
          /\ simulationTime' = simulationTime + lastCall'.deltaTime
     ELSE simulationTime' = simulationTime]_vars

\* a frame of 0.1 s has run physics with 1/60 s, and a later frame has skipped it
C26_Witness ==
  /\ steps = 1
  /\ frameCount = 2
  /\ lastCall.op = "updateAircraftPhysics"
  /\ lastCall.deltaTime = 1000 \div 60
  /\ simulationTime = 1000 \div 60
  /\ cache.canSkipUpdate

\* C27: while the simulation is paused a step changes neither the stored
\* aircraft nor the simulation time (nor the frame number and the cache), and
\* the frame that runs physics, which is never a paused one, starts from the
\* stored aircraft: after unpausing physics resumes from the pre-pause state.
C27_PausedFramesChangeNothing ==
  [][/\ isPaused => /\ aircraft' = aircraft
                    /\ simulationTime' = simulationTime
                    /\ frameCount' = frameCount
                    /\ cache' = cache
     /\ steps' = steps + 1 => /\ ~isPaused
                              /\ aero'.aircraft = aircraft
                              /\ aero'.deltaTime = lastCall'.deltaTime]_vars

\* paused after the first frame, with a throttle command waiting
C27_Witness ==
  /\ isPaused
  /\ frameCount = 1
  /\ simulationTime = 1000 \div 60
  /\ lastCall.op = "updateAircraftPhysics"
  /\ controls.throttle = 10

\* the air-relative velocity of a call (l.256)
RelativeVelocityOf(call) == VSub(call.aircraft.velocity, WindVector(call.weather))

\* the angle of attack the integrator computes in a call (l.259-263), mrad
AngleOfAttackOf(call) == AngleOfAttack(RelativeVelocityOf(call), call.aircraft.rotation)

\* the lift coefficient calculateLift uses in a call (l.28-50), thousandths
LiftCoeffOf(call) ==
  AdjustedLiftCoeff(AIRCRAFT_SPECS[call.aircraft.type].liftCoefficient, AngleOfAttackOf(call),
                    call.aircraft.type)

\* the last step was taken by an aircraft of a known type whose air-relative
\* velocity points exactly along its forward axis
StraightFlight ==
  /\ Stepped
  /\ ~IsInvalidAircraft(lastCall.aircraft)
  /\ lastCall.aircraft.type \in AircraftTypes
  /\ VDot(RelativeVelocityOf(lastCall), EulerUp(lastCall.aircraft.rotation)) = 0
  /\ VDot(RelativeVelocityOf(lastCall), EulerRight(lastCall.aircraft.rotation)) = 0
  /\ VDot(RelativeVelocityOf(lastCall), EulerForward(lastCall.aircraft.rotation)) > 0

\* C28: in straight flight (air-relative velocity exactly along the forward
\* axis) the angle of attack computed in updateAircraftPhysics is 0 and the
\* lift coefficient used is the base coefficient, not the post-stall floor.
C28_StraightFlightZeroAoA ==
  StraightFlight =>
    /\ AngleOfAttackOf(lastCall) = 0
    /\ LiftCoeffOf(lastCall) = AIRCRAFT_SPECS[lastCall.aircraft.type].liftCoefficient

\* velocity (0,0,-50), zero rotation, no wind: the angle is pi and the
\* coefficient the floor of 0.3
C28_StraightFlightStalled ==
  /\ StraightFlight
  /\ lastCall.aircraft = mockAircraft("cessna172")
  /\ lastCall.weather = defaultWeather
  /\ AngleOfAttackOf(lastCall) = PI
  /\ LiftCoeffOf(lastCall) = MulDiv(AIRCRAFT_SPECS["cessna172"].liftCoefficient, 300, Milli)

\* the last step was taken with zero throttle and no wind by an aircraft
\* standing on its gear: zero velocity, gear deployed, at gear height
ParkedStep ==
  /\ FullStep
  /\ ~IsInvalidAircraft(lastCall.aircraft)
  /\ lastCall.aircraft.type \in AircraftTypes
  /\ lastCall.aircraft.velocity = VZero
  /\ lastCall.aircraft.landingGear
  /\ lastCall.aircraft.position.y = GroundLevel(lastCall.aircraft.type)
  /\ lastCall.controls.throttle = 0
  /\ lastCall.weather.windSpeed = 0

\* C29: a step of a parked aircraft (scenario-reset state or what such steps
\* have made of it, zero throttle, no wind) leaves position and velocity
\* unchanged and reports a gForce of 1.0.
C29_ParkedStaysParked ==
  ParkedStep =>
    /\ lastCall.ret.position = lastCall.aircraft.position
    /\ lastCall.ret.velocity = lastCall.aircraft.velocity
    /\ lastCall.ret.gForce = Milli

\* the scenario-reset aircraft has stayed where it was, and reads less than 1 g
C29_ParkedBelowOneG ==
  /\ ParkedStep
  /\ lastCall.aircraft = createDefaultAircraft("cessna172")
  /\ lastCall.controls = defaultControls
  /\ lastCall.ret.position = lastCall.aircraft.position
  /\ lastCall.ret.velocity = VZero
  /\ lastCall.ret.gForce < Milli

\* ---------------------------------------------------------------------------
\* calculateAutopilotControls as a function of the aircraft and the targets
\* ---------------------------------------------------------------------------

\* headings of the aircraft and of the target, 1/1000 degree
AutopilotHeadings == {0, 10000, 90000, 170000, 190000, 270000, 350000}

\* altitudes of the aircraft and of the target, cm
AutopilotAltitudes == {250, 100000, 300000}

\* airspeeds, 1/1000 km/h
AutopilotAirspeeds == {0, 180000, 3000000}

\* calculateAutopilotControls(aircraft, targetAltitude, targetHeading) on the
\* test aircraft of a type at a heading, an altitude and an airspeed
AutopilotControls(type, heading, altitude, airspeed, targetAltitude, targetHeading) ==
  /\ fn.op = "none"
  /\ LET ac == [mockAircraft(type) EXCEPT !.heading = heading, !.altitude = altitude,
                                          !.airspeed = airspeed]
         call == calculateAutopilotControls(ac, targetAltitude, targetHeading, errors)
     IN fn' = [op |-> "calculateAutopilotControls", aircraft |-> ac,
               targetAltitude |-> targetAltitude, targetHeading |-> targetHeading,
               ret |-> call.ret]
  /\ UNCHANGED <<aircraft, controls, weather, isPaused, simulationTime, errors, frameCount,
                 cache, lastCall, aero, steps>>

NextAutopilot ==
  \E type \in AircraftTypes \cup {"unknown"}, heading \in AutopilotHeadings,
     altitude \in AutopilotAltitudes, airspeed \in AutopilotAirspeeds,
     targetAltitude \in AutopilotAltitudes, targetHeading \in AutopilotHeadings :
       AutopilotControls(type, heading, altitude, airspeed, targetAltitude, targetHeading)

SpecAutopilot == InitFn /\ [][NextAutopilot]_vars

\* the autopilot has been called
AutopilotCalled == fn.op = "calculateAutopilotControls"

\* the turn from heading to target the short way round, 1/1000 degree in
\* -180000 .. 179999 (positive: to the right)
ShortestTurn(heading, target) == ((target - heading + 540000) % 360000) - 180000

\* the commands of the last call are within range
AutopilotInRange ==
  /\ fn.ret.pitch >= -Milli /\ fn.ret.pitch <= Milli
  /\ fn.ret.yaw >= -Milli /\ fn.ret.yaw <= Milli
  /\ fn.ret.throttle >= 0 /\ fn.ret.throttle <= Milli

\* C30: the autopilot's pitch and yaw lie in [-1,1], its throttle in [0,1], and
\* the sign of the yaw command is the direction of the shortest turn from the
\* heading to the target heading across the 0/360 wrap.
C30_AutopilotShortWay ==
  AutopilotCalled =>
    /\ AutopilotInRange
    /\ ShortestTurn(fn.aircraft.heading, fn.targetHeading) \in 1 .. 179999 => fn.ret.yaw > 0
    /\ ShortestTurn(fn.aircraft.heading, fn.targetHeading) \in -179999 .. -1 => fn.ret.yaw < 0

\* heading 350, target 10: 20 degrees to the right, and full yaw to the left
C30_LongWayRound ==
  /\ AutopilotCalled
  /\ fn.aircraft.heading = 350000
  /\ fn.targetHeading = 10000
  /\ ShortestTurn(fn.aircraft.heading, fn.targetHeading) = 20000
  /\ fn.ret.yaw = -Milli

=============================================================================
